---- MODULE Spec2Model ----
(***************************************************************************)
(* Model of the CookiePot consent SDK: the storage interception engine     *)
(* (StorageBlocker), the script interception engine (ScriptAutoBlocker)    *)
(* and the consent orchestrator (CookiePot) with its persistence layer.    *)
(*                                                                         *)
(* Three specifications share the variables:                                *)
(*   SpecStorage  the StorageBlocker and the two Storage objects it wraps   *)
(*   SpecScript   the ScriptAutoBlocker and the document it observes       *)
(*   Spec         the CookiePot orchestrator, its consumers and the        *)
(*                two persistence backends                                 *)
(* Strings that the code matches against patterns are sequences of         *)
(* one-character strings, so that prefix and containment tests are         *)
(* computed as the code computes them.                                     *)
(***************************************************************************)
EXTENDS Integers, Sequences, FiniteSets, TLC

VARIABLES
  \* ---- StorageBlocker (storage-blocker.ts) ----
  sbActive,      \* StorageBlocker.active
  sbConsent,     \* StorageBlocker.consent (own copy of the categories)
  sbQueue,       \* StorageBlocker.queue
  sbOrig,        \* origLocal / origSession: "saved" or "null", per storage
  sbConfig,      \* StorageBlocker.config (queueOperations, maxQueueSize)
  patched,       \* per Storage object: are setItem/removeItem/clear the overrides
  store,         \* contents of the two underlying Storage objects
  sbEv,          \* last storage-side call and the underlying calls it made
  \* ---- shared heap of ConsentCategories objects ----
  heap,          \* object id -> categories record, or Free
  \* ---- ScriptAutoBlocker (auto-blocker.ts) and the document ----
  abConsent,     \* ScriptAutoBlocker.consent: a reference into heap
  abEnabled,     \* ScriptAutoBlocker.enabled
  abObserver,    \* ScriptAutoBlocker.observer !== null
  abConnected,   \* MutationObservers of the engine that observe the document
  abBlocked,     \* ScriptAutoBlocker.blockedScripts
  nodes,         \* script elements: node id -> attributes, or free
  doc,           \* children of the document's script container, in order
  mutQ,          \* added-node records the observer has not delivered yet
  abEv,          \* last script-side operation
  \* ---- CookiePot (client.ts), its persistence and its environment ----
  cpInstance,    \* CookiePot.instance !== null
  cpConfig,      \* the configuration init is called with / this.config
  cpConsentState,\* this.consentState: a reference into heap
  cpGcm,         \* this.googleConsentMode !== null
  cpBlocker,     \* this.scriptAutoBlocker !== null
  cookie,        \* the cookiepot_consent entry of document.cookie
  idCookie,      \* the cookiepot_visitor_id entry of document.cookie
  cpIds,         \* this.visitorId and this.sessionId
  events,        \* EventEmitter.events: event -> handlers in insertion order
  reports,       \* APIClient.request calls in flight: stage and armed timer
  held,          \* objects page code got from getConsent() and still holds
  pending,       \* calls awaiting their remote report, by caller
  gtagAvailable, \* typeof window.gtag === 'function'
  dataLayer,     \* kinds of the first consent commands window.gtag received
  cpEv           \* last orchestrator operation and what it emitted

sbVars == <<sbActive, sbConsent, sbQueue, sbOrig, sbConfig, patched, store, sbEv>>
abVars == <<abConsent, abEnabled, abObserver, abConnected, abBlocked, nodes, doc, mutQ, abEv>>

cpVars == <<cpInstance, cpConfig, cpConsentState, cpGcm, cpBlocker, cookie,
            idCookie, cpIds, events, reports, held,
            pending, gtagAvailable, dataLayer, cpEv>>

\* what the storage-side and the script-side operations leave alone
notSb == <<heap, abVars, cpVars>>
notAb == <<sbVars, cpVars>>

vars == <<sbActive, sbConsent, sbQueue, sbOrig, sbConfig, patched, store, sbEv,
          heap, abConsent, abEnabled, abObserver, abConnected, abBlocked, nodes, doc, mutQ,
          abEv,
          cpInstance, cpConfig, cpConsentState, cpGcm, cpBlocker, cookie,
          idCookie, cpIds, events, reports, held,
          pending, gtagAvailable, dataLayer, cpEv>>

----------------------------------------------------------------------------
\* Bounds of the model
MaxQueueSize == 2      \* config.maxQueueSize used by the modelled page
MaxCalls == 3          \* intercepted page calls per behaviour
MaxNodes == 4          \* script elements per behaviour (inserted and recreated)
MaxHeld == 2           \* getConsent() results page code holds at a time
MaxPending == 1        \* remote reports in flight at a time
MaxOverlap == 2        \* remote reports in flight where calls overlap
MaxRecords == 1        \* undelivered mutation records when an element is moved
MaxPatterns == 2       \* caller-supplied storage patterns per configuration
MaxDataLayer == 3      \* consent commands of window.gtag that are kept

----------------------------------------------------------------------------
\* Consent categories (types.ts)

ConsentCategory == {"necessary", "analytics", "marketing", "preferences"}

ConsentCategories ==
  [necessary : {TRUE}, analytics : BOOLEAN, marketing : BOOLEAN, preferences : BOOLEAN]

DefaultConsent ==
  [necessary |-> TRUE, analytics |-> FALSE, marketing |-> FALSE, preferences |-> FALSE]

\* null / undefined / a missing entry; every key and value is a tuple of strings
Absent == <<"<absent>">>

----------------------------------------------------------------------------
\* Text helpers: String.prototype.startsWith and RegExp.prototype.test for
\* the two regex shapes the tables use (/^lit/ and /lit/).

startsWith(s, p) == Len(p) <= Len(s) /\ SubSeq(s, 1, Len(p)) = p

includes(s, p) ==
  \E i \in 0..(Len(s) - Len(p)) : SubSeq(s, i + 1, i + Len(p)) = p

regexTest(pat, s) ==
  IF pat.anchored THEN startsWith(s, pat.text) ELSE includes(s, pat.text)

----------------------------------------------------------------------------
\* StorageBlocker: pattern tables

defaultStoragePatterns ==
  <<[kind |-> "regex", anchored |-> TRUE, text |-> <<"_","g","a">>, category |-> "analytics"],
    [kind |-> "regex", anchored |-> TRUE, text |-> <<"_","g","i","d">>, category |-> "analytics"],
    [kind |-> "regex", anchored |-> TRUE, text |-> <<"a","m","p","l","i","t","u","d","e">>, category |-> "analytics"],
    [kind |-> "regex", anchored |-> TRUE, text |-> <<"m","i","x","p","a","n","e","l">>, category |-> "analytics"],
    [kind |-> "regex", anchored |-> TRUE, text |-> <<"m","p","_">>, category |-> "analytics"],
    [kind |-> "regex", anchored |-> TRUE, text |-> <<"a","j","s","_">>, category |-> "analytics"],
    [kind |-> "regex", anchored |-> TRUE, text |-> <<"h","e","a","p">>, category |-> "analytics"],
    [kind |-> "regex", anchored |-> TRUE, text |-> <<"p","h","_">>, category |-> "analytics"],
    [kind |-> "regex", anchored |-> TRUE, text |-> <<"p","l","a","u","s","i","b","l","e">>, category |-> "analytics"],
    [kind |-> "regex", anchored |-> TRUE, text |-> <<"_","f","b","p">>, category |-> "marketing"],
    [kind |-> "regex", anchored |-> TRUE, text |-> <<"_","f","b","c">>, category |-> "marketing"],
    [kind |-> "regex", anchored |-> TRUE, text |-> <<"h","u","b","s","p","o","t">>, category |-> "marketing"],
    [kind |-> "regex", anchored |-> TRUE, text |-> <<"i","n","t","e","r","c","o","m">>, category |-> "marketing"],
    [kind |-> "regex", anchored |-> TRUE, text |-> <<"d","r","i","f","t">>, category |-> "marketing"],
    [kind |-> "regex", anchored |-> TRUE, text |-> <<"_","g","c","l">>, category |-> "marketing"],
    [kind |-> "regex", anchored |-> TRUE, text |-> <<"_","t","t","p">>, category |-> "marketing"],
    [kind |-> "regex", anchored |-> TRUE, text |-> <<"t","h","e","m","e">>, category |-> "preferences"],
    [kind |-> "regex", anchored |-> TRUE, text |-> <<"l","a","n","g">>, category |-> "preferences"],
    [kind |-> "regex", anchored |-> TRUE, text |-> <<"i","1","8","n">>, category |-> "preferences"]>>

\* config.patterns of the modelled page: one caller pattern, a string
\* pattern that maps the page's own session key to "necessary"
configPatterns ==
  <<[kind |-> "string", anchored |-> TRUE, text |-> <<"s","i","d">>, category |-> "necessary"]>>

\* mutant of storagePatterns: caller patterns are tried before the built-ins
storagePatterns_CallerFirst(callerPatterns) == callerPatterns \o defaultStoragePatterns

\* StorageBlocker constructor: built-ins first, caller patterns after them
storagePatterns(callerPatterns) == defaultStoragePatterns \o callerPatterns

\* this.patterns of the StorageBlocker on the page
sbPatterns == storagePatterns(sbConfig.patterns)

\* StorageBlocker constructor: /^cookiepot_/ plus config.allowedKeys (none here)
sbAllowedKeys ==
  <<[kind |-> "regex", anchored |-> TRUE, text |-> <<"c","o","o","k","i","e","p","o","t","_">>]>>

\* The keys the modelled page uses
KeyGa == <<"_","g","a","_","1">>          \* analytics (built-in /^_ga/)
KeyApp == <<"a","p","p">>                 \* matches nothing
KeySid == <<"s","i","d">>                 \* caller pattern, necessary
KeyConsent == <<"c","o","o","k","i","e","p","o","t","_","c","o","n","s","e","n","t">>

StorageKeys == {KeyGa, KeyApp, KeySid, KeyConsent}

\* STORAGE_KEYS.VISITOR_ID and STORAGE_KEYS.SESSION_ID: written by the SDK only
KeyVisitorId == <<"c","o","o","k","i","e","p","o","t","_","v","i","s","i","t","o","r","_","i","d">>
KeySessionId == <<"c","o","o","k","i","e","p","o","t","_","s","e","s","s","i","o","n","_","i","d">>
StorageVals == {<<"v">>}
StorageTypes == {"localStorage", "sessionStorage"}

EmptyStorage == [k \in StorageKeys \cup {KeyVisitorId, KeySessionId} |-> Absent]

\* StorageBlocker.isAllowed
isAllowed(key) ==
  \E i \in 1..Len(sbAllowedKeys) :
    IF sbAllowedKeys[i].kind = "string"
      THEN key = sbAllowedKeys[i].text
      ELSE regexTest(sbAllowedKeys[i], key)

patternMatches(p, key) ==
  IF p.kind = "string"
    THEN key = p.text \/ startsWith(key, p.text)
    ELSE regexTest(p, key)

RECURSIVE categorizeFrom(_, _, _)
categorizeFrom(pats, i, key) ==
  IF i > Len(pats) THEN "marketing"
  ELSE IF patternMatches(pats[i], key) THEN pats[i].category
  ELSE categorizeFrom(pats, i + 1, key)

\* StorageBlocker.categorizeKey
categorizeKey(key) == categorizeFrom(sbPatterns, 1, key)

\* mutant of hasConsent: every category counts as granted
sbHasConsent_GrantsAll(consent, category) == TRUE

\* StorageBlocker.hasConsent
sbHasConsent(consent, category) ==
  IF category = "necessary" THEN TRUE ELSE consent[category] = TRUE

----------------------------------------------------------------------------
\* The underlying Storage methods (the originals captured by wrapStorage)

origSetItem(s, key, value) == [s EXCEPT ![key] = value]
origRemoveItem(s, key) == [s EXCEPT ![key] = Absent]
origClear(s) == EmptyStorage

\* one call of an original method, as a spy would record it
UnderCall(type, st, key, value) ==
  [type |-> type, storageType |-> st, key |-> key, value |-> value]

NoCall == UnderCall("none", "none", Absent, Absent)

applyCall(stores, c) ==
  [stores EXCEPT ![c.storageType] =
     CASE c.type = "setItem" -> origSetItem(@, c.key, c.value)
       [] c.type = "removeItem" -> origRemoveItem(@, c.key)
       [] OTHER -> origClear(@)]

\* QueuedStorageOperation (the timestamp field is never read by the code
\* and is left out)
QueuedOp(type, st, key, value, category) ==
  [type |-> type, storageType |-> st, key |-> key, value |-> value,
   category |-> category]

\* Array.prototype.shift: what is left (nothing to remove from an empty array)
shift(queue) == IF queue = <<>> THEN <<>> ELSE Tail(queue)

\* StorageBlocker.queueOperation: drop oldest when full, then push
queueOperation(queue, op, maxSize) ==
  (IF Len(queue) >= maxSize THEN shift(queue) ELSE queue) \o <<op>>

\* StorageBlocker.executeOperation: the underlying calls one queued
\* operation makes (none when the saved originals are gone)
executeOperation(op, orig) ==
  IF orig[op.storageType] = "null" THEN <<>>
  ELSE <<UnderCall(op.type, op.storageType, op.key, op.value)>>

\* mutant of processQueue: operations that stay queued are put back newest
\* first
RECURSIVE processQueue_Reverses(_, _, _, _, _)
processQueue_Reverses(queue, i, consent, orig, acc) ==
  IF i > Len(queue) THEN acc
  ELSE IF sbHasConsent(consent, queue[i].category)
    THEN processQueue_Reverses(queue, i + 1, consent, orig,
           [acc EXCEPT !.calls = @ \o executeOperation(queue[i], orig)])
    ELSE processQueue_Reverses(queue, i + 1, consent, orig,
           [acc EXCEPT !.remaining = <<queue[i]>> \o @])

\* StorageBlocker.processQueue: walks the queue front to back; result is
\* the remaining queue and the underlying calls in the order made
RECURSIVE processQueue(_, _, _, _, _)
processQueue(queue, i, consent, orig, acc) ==
  IF i > Len(queue) THEN acc
  ELSE IF sbHasConsent(consent, queue[i].category)
    THEN processQueue(queue, i + 1, consent, orig,
           [acc EXCEPT !.calls = @ \o executeOperation(queue[i], orig)])
    ELSE processQueue(queue, i + 1, consent, orig,
           [acc EXCEPT !.remaining = Append(@, queue[i])])

RECURSIVE applyCalls(_, _, _)
applyCalls(stores, calls, i) ==
  IF i > Len(calls) THEN stores
  ELSE applyCalls(applyCall(stores, calls[i]), calls, i + 1)

----------------------------------------------------------------------------
\* StorageBlocker operations

\* StorageBlocker.start
SbStart ==
  /\ IF sbActive
       THEN UNCHANGED <<sbActive, sbOrig, patched>>
       ELSE /\ sbOrig' = [st \in StorageTypes |-> "saved"]
            /\ patched' = [st \in StorageTypes |-> TRUE]
            /\ sbActive' = TRUE
  /\ sbEv' = [op |-> "start", call |-> NoCall, under |-> <<>>, n |-> sbEv.n]
  /\ UNCHANGED <<sbConsent, sbQueue, sbConfig, store>>
  /\ UNCHANGED notSb

\* mutant of restoreStorage: only localStorage gets its methods back
restoreStorage_LocalOnly(patchedNow, orig) ==
  [st \in StorageTypes |->
     IF orig[st] = "saved" /\ st = "localStorage" THEN FALSE ELSE patchedNow[st]]

\* stop()'s two guarded restoreStorage calls: a backend whose originals
\* were saved gets setItem, removeItem and clear back
restoreStorage(patchedNow, orig) ==
  [st \in StorageTypes |-> IF orig[st] = "saved" THEN FALSE ELSE patchedNow[st]]

\* StorageBlocker.stop
SbStop ==
  /\ IF ~sbActive
       THEN UNCHANGED <<sbActive, sbOrig, patched>>
       ELSE /\ patched' = restoreStorage(patched, sbOrig)
            /\ sbOrig' = [st \in StorageTypes |-> "null"]
            /\ sbActive' = FALSE
  /\ sbEv' = [op |-> "stop", call |-> NoCall, under |-> <<>>, n |-> sbEv.n]
  /\ UNCHANGED <<sbConsent, sbQueue, sbConfig, store>>
  /\ UNCHANGED notSb

\* StorageBlocker.updateConsent
SbUpdateConsent(consent) ==
  LET r == processQueue(sbQueue, 1, consent, sbOrig,
                        [remaining |-> <<>>, calls |-> <<>>])
  IN /\ sbConsent' = consent
     /\ sbQueue' = r.remaining
     /\ store' = applyCalls(store, r.calls, 1)
     /\ sbEv' = [op |-> "updateConsent", call |-> NoCall, under |-> r.calls,
                 n |-> sbEv.n]
     /\ UNCHANGED <<sbActive, sbOrig, sbConfig, patched>>
     /\ UNCHANGED notSb

\* what an intercepted call does once the key is neither allowed nor consented
Blocked(op) ==
  /\ sbQueue' = IF sbConfig.queueOperations # FALSE
                  THEN queueOperation(sbQueue, op, sbConfig.maxQueueSize)
                  ELSE sbQueue
  /\ store' = store

PassThrough(call) ==
  /\ store' = applyCall(store, call)
  /\ sbQueue' = sbQueue

\* page code calls storage.setItem(key, value)
SetItem(st, key, value) ==
  LET call == UnderCall("setItem", st, key, value)
      category == categorizeKey(key)
      pass == ~patched[st] \/ isAllowed(key) \/ sbHasConsent(sbConsent, category)
  IN /\ sbEv.n < MaxCalls
     /\ IF pass THEN PassThrough(call)
                ELSE Blocked(QueuedOp("setItem", st, key, value, category))
     /\ sbEv' = [op |-> "setItem", call |-> call,
                 under |-> IF pass THEN <<call>> ELSE <<>>, n |-> sbEv.n + 1]
     /\ UNCHANGED <<sbActive, sbConsent, sbOrig, sbConfig, patched>>
     /\ UNCHANGED notSb

\* page code calls storage.removeItem(key)
RemoveItem(st, key) ==
  LET call == UnderCall("removeItem", st, key, Absent)
      category == categorizeKey(key)
      pass == ~patched[st] \/ isAllowed(key) \/ sbHasConsent(sbConsent, category)
  IN /\ sbEv.n < MaxCalls
     /\ IF pass THEN PassThrough(call)
                ELSE Blocked(QueuedOp("removeItem", st, key, Absent, category))
     /\ sbEv' = [op |-> "removeItem", call |-> call,
                 under |-> IF pass THEN <<call>> ELSE <<>>, n |-> sbEv.n + 1]
     /\ UNCHANGED <<sbActive, sbConsent, sbOrig, sbConfig, patched>>
     /\ UNCHANGED notSb

\* mutant of clearCategory: clear() asks for analytics consent
clearCategory_Analytics == "analytics"

\* the category the clear override asks consent for and queues under
clearCategory == "marketing"

\* page code calls storage.clear()
Clear(st) ==
  LET call == UnderCall("clear", st, Absent, Absent)
      pass == ~patched[st] \/ sbHasConsent(sbConsent, clearCategory)
  IN /\ sbEv.n < MaxCalls
     /\ IF pass THEN PassThrough(call)
                ELSE Blocked(QueuedOp("clear", st, Absent, Absent, clearCategory))
     /\ sbEv' = [op |-> "clear", call |-> call,
                 under |-> IF pass THEN <<call>> ELSE <<>>, n |-> sbEv.n + 1]
     /\ UNCHANGED <<sbActive, sbConsent, sbOrig, sbConfig, patched>>
     /\ UNCHANGED notSb

\* new StorageBlocker(config, initialConsent) on a page whose stores are empty
InitStorage ==
  /\ sbActive = FALSE
  /\ sbConsent \in ConsentCategories
  /\ sbQueue = <<>>
  /\ sbOrig = [st \in StorageTypes |-> "null"]
  /\ sbConfig \in [queueOperations : BOOLEAN, maxQueueSize : {MaxQueueSize},
                  patterns : {configPatterns}]
  /\ patched = [st \in StorageTypes |-> FALSE]
  /\ store = [st \in StorageTypes |-> EmptyStorage]
  /\ sbEv = [op |-> "new", call |-> NoCall, under |-> <<>>, n |-> 0]

----------------------------------------------------------------------------
\* categorizeKey as a public method, over caller-supplied pattern lists

\* config.patterns entries a caller may supply: string patterns that overlap
\* a built-in, each other, or every key, and a regular expression
CallerPatterns ==
  {[kind |-> "string", anchored |-> TRUE, text |-> <<"s","i","d">>, category |-> "necessary"],
   [kind |-> "string", anchored |-> TRUE, text |-> <<"_","g","a">>, category |-> "necessary"],
   [kind |-> "string", anchored |-> TRUE, text |-> <<"s">>, category |-> "preferences"],
   [kind |-> "string", anchored |-> TRUE, text |-> <<>>, category |-> "analytics"],
   [kind |-> "regex", anchored |-> FALSE, text |-> <<"i","d">>, category |-> "preferences"]}

CallerPatternLists ==
  UNION {[1..n -> CallerPatterns] : n \in 0..MaxPatterns}

\* keys categorizeKey is asked about
CategorizeKeys ==
  {KeyGa, KeyApp, KeySid, KeyConsent,
   <<"_","g","i","d">>, <<"s","i","d","e","b","a","r">>, <<"t","h","e","m","e","_","x">>,
   <<"g","r","i","d">>, <<"s">>, <<>>}

\* page code calls blocker.categorizeKey(key)
CategorizeKey(key) ==
  /\ sbEv' = [op |-> "categorizeKey",
              call |-> UnderCall("categorizeKey", "none", key, Absent),
              under |-> <<>>, n |-> sbEv.n, result |-> categorizeKey(key)]
  /\ UNCHANGED <<sbActive, sbConsent, sbQueue, sbOrig, sbConfig, patched, store>>
  /\ UNCHANGED notSb

----------------------------------------------------------------------------
\* Heap of ConsentCategories objects: references are object ids, so that two
\* holders of the same object see each other's writes.

\* the internal state, the script engine's view, a new object, and the held ones
ObjIds == 1..(MaxHeld + 3)
NodeIds == 1..MaxNodes

Alloc(h) ==
  CHOOSE o \in ObjIds \ DOMAIN h : \A p \in ObjIds \ DOMAIN h : o <= p

\* objects no holder references any more are garbage
Restrict(h, live) == [o \in (DOMAIN h) \cap live |-> h[o]]

----------------------------------------------------------------------------
\* ScriptAutoBlocker: texts, patterns and matching

None == <<>>     \* '' / undefined / null for a script's src, content, marker

\* String.prototype.toLowerCase on the characters the modelled texts use
lowerChar(c) ==
  CASE c = "F" -> "f" [] c = "B" -> "b" [] c = "G" -> "g" [] c = "A" -> "a"
    [] OTHER -> c

toLowerCase(s) == [i \in 1..Len(s) |-> lowerChar(s[i])]

\* config.autoBlock.scripts of the modelled page; the patterns are literal
\* texts (no regex metacharacters), so new RegExp(p, 'i').test(text) is a
\* case-insensitive containment test
scriptPatterns ==
  <<[pattern |-> <<"g","a">>, compiles |-> TRUE, category |-> "analytics"],
    [pattern |-> <<"f","b">>, compiles |-> TRUE, category |-> "marketing"]>>

SrcGa == <<"g","a",".","j","s">>
SrcFb == <<"F","B",".","j","s">>
SrcOwn == <<"m","y",".","j","s">>
TxtGa == <<"g","a","(",")">>

\* the script elements the modelled page inserts: src attribute and inline text
ScriptKinds ==
  {[src |-> SrcGa, content |-> None],
   [src |-> SrcFb, content |-> None],
   [src |-> None, content |-> TxtGa],
   [src |-> SrcOwn, content |-> TxtGa],
   [src |-> SrcOwn, content |-> None]}

\* ScriptAutoBlocker.matchesPattern
matchesPattern(text, p) ==
  IF p.compiles
    THEN includes(toLowerCase(text), toLowerCase(p.pattern))   \* regex, flag i
    ELSE includes(toLowerCase(text), toLowerCase(p.pattern))   \* catch branch

RECURSIVE matchFrom(_, _, _)
matchFrom(i, src, content) ==
  IF i > Len(scriptPatterns) THEN None
  ELSE IF src # None /\ matchesPattern(src, scriptPatterns[i])
    THEN <<scriptPatterns[i].category>>
  ELSE IF content # None /\ matchesPattern(content, scriptPatterns[i])
    THEN <<scriptPatterns[i].category>>
  ELSE matchFrom(i + 1, src, content)

\* mutant of matchScriptToCategory: a script matching nothing is classified
\* marketing, as unknown storage keys are
matchScriptToCategory_FallsBack(script) ==
  IF matchFrom(1, script.src, script.content) = None THEN <<"marketing">>
  ELSE matchFrom(1, script.src, script.content)

\* ScriptAutoBlocker.matchScriptToCategory: <<category>> or None (null)
matchScriptToCategory(script) == matchFrom(1, script.src, script.content)

\* ScriptAutoBlocker.hasConsent
abHasConsent(consent, category) == consent[category] = TRUE

\* document.createElement('script') followed by the page setting src / text
NewScript(kind) ==
  [src |-> kind.src, content |-> kind.content, type |-> "",
   blocked |-> None, processed |-> FALSE, unblocked |-> FALSE]

\* BlockedScript record
BlockedScript(n, category, script) ==
  [element |-> n, category |-> category, src |-> script.src,
   content |-> script.content]

\* mutant of handleScriptTag: no look at the processed marker
handleScriptTag_NoSkip(st, n, consent) ==
  LET category == matchScriptToCategory(st.nodes[n])
      st1 == IF category # None /\ ~abHasConsent(consent, category[1])
               THEN [nodes |-> [st.nodes EXCEPT ![n] =
                                  [@ EXCEPT !.type = "text/plain",
                                            !.blocked = <<category[1]>>,
                                            !.src = None]],
                     blocked |-> Append(st.blocked,
                                        BlockedScript(n, category[1], st.nodes[n]))]
               ELSE st
  IN [st1 EXCEPT !.nodes[n].processed = TRUE]

\* mutant of blockScript: the src attribute is left on the element
blockScript_KeepsSrc(st, n, category) ==
  [nodes |-> [st.nodes EXCEPT ![n] =
                [@ EXCEPT !.type = "text/plain", !.blocked = <<category>>]],
   blocked |-> Append(st.blocked, BlockedScript(n, category, st.nodes[n]))]

\* ScriptAutoBlocker.blockScript: state is [nodes, blocked]
blockScript(st, n, category) ==
  [nodes |-> [st.nodes EXCEPT ![n] =
                [@ EXCEPT !.type = "text/plain", !.blocked = <<category>>,
                          !.src = None]],
   blocked |-> Append(st.blocked, BlockedScript(n, category, st.nodes[n]))]

\* ScriptAutoBlocker.handleScriptTag
handleScriptTag(st, n, consent) ==
  IF st.nodes[n].processed THEN st
  ELSE LET category == matchScriptToCategory(st.nodes[n])
           st1 == IF category # None /\ ~abHasConsent(consent, category[1])
                    THEN blockScript(st, n, category[1])
                    ELSE st
       IN [st1 EXCEPT !.nodes[n].processed = TRUE]

\* an entry of mutation.addedNodes: n is the script element n itself, -n is
\* an element that is no script and has the script element n inside it
nodeName(added) == IF added > 0 THEN "SCRIPT" ELSE "DIV"

\* the MutationObserver callback: every added node of the batch, in order;
\* only an added node that is itself a script is handed to handleScriptTag
RECURSIVE handleBatch(_, _, _, _)
handleBatch(st, batch, i, consent) ==
  IF i > Len(batch) THEN st
  ELSE IF nodeName(batch[i]) = "SCRIPT"
    THEN handleBatch(handleScriptTag(st, batch[i], consent), batch, i + 1, consent)
    ELSE handleBatch(st, batch, i + 1, consent)

IndexOf(seq, x) == CHOOSE i \in 1..Len(seq) : seq[i] = x
InDoc(d, n) == \E i \in 1..Len(d) : d[i] = n

FreshNode(ns) ==
  CHOOSE n \in NodeIds \ DOMAIN ns : \A m \in NodeIds \ DOMAIN ns : n <= m

\* mutant of executeBlockedScript: the new element is appended to the
\* container instead of taking the place of the old one
executeBlockedScript_Appends(st, b) ==
  LET old == st.nodes[b.element]
      new == FreshNode(st.nodes)
      newScript ==
        [src |-> IF b.src # None THEN b.src ELSE old.src,
         content |-> IF b.src = None /\ b.content # None THEN b.content ELSE None,
         type |-> "text/javascript", blocked |-> None,
         processed |-> TRUE, unblocked |-> TRUE]
  IN IF InDoc(st.doc, b.element)
       THEN [nodes |-> [n \in (DOMAIN st.nodes) \cup {new} |->
                          IF n = new THEN newScript ELSE st.nodes[n]],
             doc |-> Append(SelectSeq(st.doc, LAMBDA m : m # b.element), new),
             added |-> Append(st.added, new)]
       ELSE st

\* ScriptAutoBlocker.executeBlockedScript: state is [nodes, doc, added].
\* The new element copies the attributes of the neutralised one except the
\* blocked marker; it is created in any case and reaches the document only
\* when the old element still has a parent.
executeBlockedScript(st, b) ==
  LET old == st.nodes[b.element]
      new == FreshNode(st.nodes)
      newScript ==
        [src |-> IF b.src # None THEN b.src ELSE old.src,
         content |-> IF b.src = None /\ b.content # None THEN b.content ELSE None,
         type |-> "text/javascript", blocked |-> None,
         processed |-> TRUE, unblocked |-> TRUE]
  IN IF InDoc(st.doc, b.element)
       THEN [nodes |-> [n \in (DOMAIN st.nodes) \cup {new} |->
                          IF n = new THEN newScript ELSE st.nodes[n]],
             doc |-> [st.doc EXCEPT ![IndexOf(st.doc, b.element)] = new],
             added |-> Append(st.added, new)]
       ELSE st

RECURSIVE unblockFrom(_, _, _, _)
unblockFrom(st, blocked, i, categories) ==
  IF i > Len(blocked) THEN st
  ELSE IF blocked[i].category \in categories
    THEN unblockFrom(executeBlockedScript(st, blocked[i]), blocked, i + 1, categories)
    ELSE unblockFrom(st, blocked, i + 1, categories)

\* mutant of changedCategories: every category the new consent does not grant
changedCategories_NotGranted(previousConsent, newConsent) ==
  {c \in {"analytics", "marketing", "preferences"} : ~newConsent[c]}

\* the categories updateConsent treats as newly granted
changedCategories(previousConsent, newConsent) ==
  {c \in {"analytics", "marketing", "preferences"} :
     ~previousConsent[c] /\ newConsent[c]}

----------------------------------------------------------------------------
\* ScriptAutoBlocker operations

\* ScriptAutoBlocker.stop on this.observer and the observers connected
observerStop(observer, connected) ==
  IF observer THEN [observer |-> FALSE, connected |-> connected - 1]
  ELSE [observer |-> observer, connected |-> connected]

\* mutant of observerStart: no this.stop() before the new observer
observerStart_NoStop(enabled, observer, connected) ==
  IF ~enabled THEN [observer |-> observer, connected |-> connected]
  ELSE [observer |-> TRUE, connected |-> connected + 1]

\* ScriptAutoBlocker.start: nothing when not enabled; otherwise stop(),
\* then a new MutationObserver that observes the document
observerStart(enabled, observer, connected) ==
  IF ~enabled THEN [observer |-> observer, connected |-> connected]
  ELSE [observer |-> TRUE,
        connected |-> observerStop(observer, connected).connected + 1]

\* ScriptAutoBlocker.stop (disconnect drops the undelivered records)
stopObserver ==
  /\ abObserver' = observerStop(abObserver, abConnected).observer
  /\ abConnected' = observerStop(abObserver, abConnected).connected
  /\ mutQ' = <<>>

\* ScriptAutoBlocker.start
AbStart ==
  /\ abObserver' = observerStart(abEnabled, abObserver, abConnected).observer
  /\ abConnected' = observerStart(abEnabled, abObserver, abConnected).connected
  /\ mutQ' = IF abEnabled THEN <<>> ELSE mutQ
  /\ abEv' = [op |-> "start"]
  /\ UNCHANGED <<heap, abConsent, abEnabled, abBlocked, nodes, doc>>
  /\ UNCHANGED notAb

AbStop ==
  /\ stopObserver
  /\ abEv' = [op |-> "stop"]
  /\ UNCHANGED <<heap, abConsent, abEnabled, abBlocked, nodes, doc>>
  /\ UNCHANGED notAb

\* ScriptAutoBlocker.enable
AbEnable ==
  /\ abEnabled' = TRUE
  /\ abObserver' = observerStart(TRUE, abObserver, abConnected).observer
  /\ abConnected' = observerStart(TRUE, abObserver, abConnected).connected
  /\ mutQ' = <<>>
  /\ abEv' = [op |-> "enable"]
  /\ UNCHANGED <<heap, abConsent, abBlocked, nodes, doc>>
  /\ UNCHANGED notAb

\* ScriptAutoBlocker.disable
AbDisable ==
  /\ abEnabled' = FALSE
  /\ stopObserver
  /\ abEv' = [op |-> "disable"]
  /\ UNCHANGED <<heap, abConsent, abBlocked, nodes, doc>>
  /\ UNCHANGED notAb

\* the MutationObserver callback delivers the pending batch
ObserverCallback ==
  /\ abObserver
  /\ mutQ # <<>>
  /\ LET r == handleBatch([nodes |-> nodes, blocked |-> abBlocked], mutQ, 1,
                          heap[abConsent])
     IN /\ nodes' = r.nodes
        /\ abBlocked' = r.blocked
  /\ mutQ' = <<>>
  /\ abEv' = [op |-> "observe"]
  /\ UNCHANGED <<heap, abConsent, abEnabled, abObserver, abConnected, doc>>
  /\ UNCHANGED notAb

\* ScriptAutoBlocker.updateConsent(newConsent), newConsent a reference
abUpdateConsent(ref) ==
  LET previousConsent == heap[abConsent]
      newConsent == heap'[ref]
      categories == changedCategories(previousConsent, newConsent)
      r == IF categories # {}
             THEN unblockFrom([nodes |-> nodes, doc |-> doc, added |-> <<>>],
                              abBlocked, 1, categories)
             ELSE [nodes |-> nodes, doc |-> doc, added |-> <<>>]
  IN /\ abConsent' = ref
     /\ nodes' = r.nodes
     /\ doc' = r.doc
     /\ abBlocked' = SelectSeq(abBlocked, LAMBDA b : b.category \notin categories)
     /\ mutQ' = IF abObserver THEN mutQ \o r.added ELSE mutQ
     /\ abEv' = [op |-> "updateConsent"]
     /\ UNCHANGED <<abEnabled, abObserver, abConnected>>

\* a caller builds a new categories object and hands it to updateConsent
AbUpdateConsent(c) ==
  LET ref == Alloc(heap)
  IN /\ heap' = Restrict([o \in (DOMAIN heap) \cup {ref} |->
                            IF o = ref THEN c ELSE heap[o]], {ref})
     /\ abUpdateConsent(ref)
     /\ UNCHANGED notAb

\* page code creates a script element and inserts it at position i
InsertScript(kind, i) ==
  LET n == FreshNode(nodes)
  IN /\ 2 * (Cardinality({m \in DOMAIN nodes : ~nodes[m].unblocked}) + 1) <= MaxNodes
     /\ nodes' = [m \in (DOMAIN nodes) \cup {n} |->
                    IF m = n THEN NewScript(kind) ELSE nodes[m]]
     /\ doc' = SubSeq(doc, 1, i - 1) \o <<n>> \o SubSeq(doc, i, Len(doc))
     /\ mutQ' = IF abObserver THEN Append(mutQ, n) ELSE mutQ
     /\ abEv' = [op |-> "insert"]
     /\ UNCHANGED <<heap, abConsent, abEnabled, abObserver, abConnected, abBlocked>>
     /\ UNCHANGED notAb

\* page code builds an element that is no script, puts a new script element
\* inside it and inserts the element at position i: the mutation record
\* lists the element, its descendants are not in addedNodes
InsertSubtree(kind, i) ==
  LET n == FreshNode(nodes)
  IN /\ 2 * (Cardinality({m \in DOMAIN nodes : ~nodes[m].unblocked}) + 1) <= MaxNodes
     /\ nodes' = [m \in (DOMAIN nodes) \cup {n} |->
                    IF m = n THEN NewScript(kind) ELSE nodes[m]]
     /\ doc' = SubSeq(doc, 1, i - 1) \o <<n>> \o SubSeq(doc, i, Len(doc))
     /\ mutQ' = IF abObserver THEN Append(mutQ, 0 - n) ELSE mutQ
     /\ abEv' = [op |-> "insertSubtree"]
     /\ UNCHANGED <<heap, abConsent, abEnabled, abObserver, abConnected, abBlocked>>
     /\ UNCHANGED notAb

\* page code inserts a script element it inserted before (appendChild or
\* insertBefore of an existing element moves it): one more added node
MoveScript(n, i) ==
  /\ n \in DOMAIN nodes
  /\ Len(mutQ) < MaxRecords
  /\ LET rest == SelectSeq(doc, LAMBDA m : m # n)
     IN /\ i \in 1..(Len(rest) + 1)
        /\ doc' = SubSeq(rest, 1, i - 1) \o <<n>> \o SubSeq(rest, i, Len(rest))
  /\ mutQ' = IF abObserver THEN Append(mutQ, n) ELSE mutQ
  /\ abEv' = [op |-> "move"]
  /\ UNCHANGED <<heap, abConsent, abEnabled, abObserver, abConnected, abBlocked, nodes>>
  /\ UNCHANGED notAb

\* page code removes a script element from the document
RemoveScript(n) ==
  /\ InDoc(doc, n)
  /\ doc' = SelectSeq(doc, LAMBDA m : m # n)
  /\ abEv' = [op |-> "remove"]
  /\ UNCHANGED <<heap, abConsent, abEnabled, abObserver, abConnected, abBlocked, nodes, mutQ>>
  /\ UNCHANGED notAb

\* a page without a ScriptAutoBlocker
IdleScript ==
  /\ heap = <<>>
  /\ abConsent = 0
  /\ abEnabled = FALSE
  /\ abObserver = FALSE
  /\ abConnected = 0
  /\ abBlocked = <<>>
  /\ nodes = <<>>
  /\ doc = <<>>
  /\ mutQ = <<>>
  /\ abEv = [op |-> "none"]

\* new ScriptAutoBlocker(patterns, initialConsent, enabled) on an empty document
InitScript ==
  /\ \E c \in ConsentCategories : heap = [o \in {1} |-> c]
  /\ abConsent = 1
  /\ abEnabled \in BOOLEAN
  /\ abObserver = FALSE
  /\ abConnected = 0
  /\ abBlocked = <<>>
  /\ nodes = <<>>
  /\ doc = <<>>
  /\ mutQ = <<>>
  /\ abEv = [op |-> "new"]

NextScript ==
  \/ AbStart
  \/ AbStop
  \/ AbEnable
  \/ AbDisable
  \/ ObserverCallback
  \/ \E c \in ConsentCategories : AbUpdateConsent(c)
  \/ \E kind \in ScriptKinds, i \in 1..(Len(doc) + 1) : InsertScript(kind, i)
  \/ \E n \in DOMAIN nodes : RemoveScript(n)

\* a page without a StorageBlocker
IdleStorage ==
  /\ sbActive = FALSE
  /\ sbConsent = DefaultConsent
  /\ sbQueue = <<>>
  /\ sbOrig = [st \in StorageTypes |-> "null"]
  /\ sbConfig = [queueOperations |-> TRUE, maxQueueSize |-> MaxQueueSize,
                 patterns |-> configPatterns]
  /\ patched = [st \in StorageTypes |-> FALSE]
  /\ store = [st \in StorageTypes |-> EmptyStorage]
  /\ sbEv = [op |-> "new", call |-> NoCall, under |-> <<>>, n |-> 0]


NextStorage ==
  \/ SbStart
  \/ SbStop
  \/ \E c \in ConsentCategories : SbUpdateConsent(c)
  \/ \E st \in StorageTypes, k \in StorageKeys, v \in StorageVals : SetItem(st, k, v)
  \/ \E st \in StorageTypes, k \in StorageKeys : RemoveItem(st, k)
  \/ \E st \in StorageTypes : Clear(st)

----------------------------------------------------------------------------
\* Persistence layer (storage.ts). A stored text is a sequence of tokens:
\* "{" and "}", member names, and scalar values; string values carry their
\* quotes ('...').

QVisitor == "'visitor-1'"
QSession == "'session-1'"
QUuid3 == "'uuid-3'"
QUuid4 == "'uuid-4'"
QStamp == "'ts'"
QEmpty == "''"
StringTokens == {QVisitor, QSession, QUuid3, QUuid4, QStamp, QEmpty}
ScalarTokens == StringTokens \cup {"true", "false", "null"}
NameTokens == {"visitorId", "sessionId", "categories", "timestamp",
               "necessary", "analytics", "marketing", "preferences"}

boolToken(b) == IF b THEN "true" ELSE "false"

\* JSON.stringify of a ConsentCategories object
stringifyCategories(c) ==
  <<"{", "necessary", boolToken(c.necessary), "analytics", boolToken(c.analytics),
    "marketing", boolToken(c.marketing), "preferences", boolToken(c.preferences), "}">>

Undefined == "<undefined>"

\* mutant of stringify: the two identifiers are written under each other's
\* name
stringify_SwapsIds(state) ==
  <<"{", "visitorId", state.sessionId, "sessionId", state.visitorId, "categories">>
    \o stringifyCategories(state.categories)
    \o (IF state.timestamp = Undefined THEN <<>> ELSE <<"timestamp", state.timestamp>>)
    \o <<"}">>

\* JSON.stringify of a ConsentState (a member whose value is undefined is
\* left out)
stringify(state) ==
  <<"{", "visitorId", state.visitorId, "sessionId", state.sessionId, "categories">>
    \o stringifyCategories(state.categories)
    \o (IF state.timestamp = Undefined THEN <<>> ELSE <<"timestamp", state.timestamp>>)
    \o <<"}">>

\* a backend whose every access throws (document.cookie or localStorage in
\* a context that denies storage)
Throws == <<"<throws>">>
Member(key, val, obj) == [key |-> key, val |-> val, obj |-> obj]
SyntaxError == [ok |-> FALSE, members |-> <<>>, next |-> 0]

\* JSON.parse, the members of an object whose values are scalars, from
\* position j (after the "{") to the closing "}"
RECURSIVE parseScalarMembers(_, _, _)
parseScalarMembers(toks, j, acc) ==
  IF j > Len(toks) THEN SyntaxError
  ELSE IF toks[j] = "}" THEN [ok |-> TRUE, members |-> acc, next |-> j + 1]
  ELSE IF toks[j] \notin NameTokens \/ j + 1 > Len(toks) THEN SyntaxError
  ELSE IF toks[j + 1] \in ScalarTokens
    THEN parseScalarMembers(toks, j + 2, Append(acc, Member(toks[j], toks[j + 1], <<>>)))
  ELSE SyntaxError

\* JSON.parse, the members of the outer object: scalars or one nested object
RECURSIVE parseMembers(_, _, _)
parseMembers(toks, j, acc) ==
  IF j > Len(toks) THEN SyntaxError
  ELSE IF toks[j] = "}" THEN [ok |-> TRUE, members |-> acc, next |-> j + 1]
  ELSE IF toks[j] \notin NameTokens \/ j + 1 > Len(toks) THEN SyntaxError
  ELSE IF toks[j + 1] \in ScalarTokens
    THEN parseMembers(toks, j + 2, Append(acc, Member(toks[j], toks[j + 1], <<>>)))
  ELSE IF toks[j + 1] = "{"
    THEN LET inner == parseScalarMembers(toks, j + 2, <<>>)
         IN IF inner.ok
              THEN parseMembers(toks, inner.next,
                     Append(acc, Member(toks[j], "<object>", inner.members)))
              ELSE SyntaxError
  ELSE SyntaxError

\* JSON.parse: [threw, isObject, members]
JSONparse(text) ==
  IF Len(text) = 1 /\ text[1] \in ScalarTokens
    THEN [threw |-> FALSE, isObject |-> FALSE, members |-> <<>>]
  ELSE IF Len(text) >= 2 /\ text[1] = "{"
    THEN LET r == parseMembers(text, 2, <<>>)
         IN IF r.ok /\ r.next = Len(text) + 1
              THEN [threw |-> FALSE, isObject |-> TRUE, members |-> r.members]
              ELSE [threw |-> TRUE, isObject |-> FALSE, members |-> <<>>]
  ELSE [threw |-> TRUE, isObject |-> FALSE, members |-> <<>>]

\* property lookup on a parsed object: the last member of that name wins
getMember(members, key) ==
  IF \E i \in 1..Len(members) : members[i].key = key
    THEN members[CHOOSE i \in 1..Len(members) :
                   /\ members[i].key = key
                   /\ \A j \in (i + 1)..Len(members) : members[j].key # key]
    ELSE Member(key, Undefined, <<>>)

\* z.string().min(1).max(128)
isIdString(tok) == tok \in StringTokens /\ tok # QEmpty
\* z.boolean()
isBoolean(tok) == tok \in {"true", "false"}

\* ConsentCategoriesSchema
categoriesValid(m) ==
  /\ m.val = "<object>"
  /\ getMember(m.obj, "necessary").val = "true"
  /\ isBoolean(getMember(m.obj, "analytics").val)
  /\ isBoolean(getMember(m.obj, "marketing").val)
  /\ isBoolean(getMember(m.obj, "preferences").val)

\* ConsentStateSchema.safeParse(parsed).success
ConsentStateSchemaSuccess(parsed) ==
  /\ parsed.isObject
  /\ isIdString(getMember(parsed.members, "visitorId").val)
  /\ isIdString(getMember(parsed.members, "sessionId").val)
  /\ categoriesValid(getMember(parsed.members, "categories"))
  /\ getMember(parsed.members, "timestamp").val \in StringTokens \cup {Undefined}

\* ConsentStateSchema.safeParse(parsed).data
ConsentStateSchemaData(parsed) ==
  LET cats == getMember(parsed.members, "categories").obj
  IN [visitorId |-> getMember(parsed.members, "visitorId").val,
      sessionId |-> getMember(parsed.members, "sessionId").val,
      categories |-> [necessary |-> getMember(cats, "necessary").val = "true",
                      analytics |-> getMember(cats, "analytics").val = "true",
                      marketing |-> getMember(cats, "marketing").val = "true",
                      preferences |-> getMember(cats, "preferences").val = "true"],
      timestamp |-> getMember(parsed.members, "timestamp").val]

\* encodeURIComponent, token by token: braces and quotes are escaped
encodeToken(t) ==
  CASE t = "{" -> "%7B" [] t = "}" -> "%7D"
    [] t = QVisitor -> "%27visitor-1%27" [] t = QSession -> "%27session-1%27"
    [] t = QUuid3 -> "%27uuid-3%27" [] t = QUuid4 -> "%27uuid-4%27"
    [] t = QStamp -> "%27ts%27" [] t = QEmpty -> "%27%27"
    [] OTHER -> t

encodeURIComponent(text) == [i \in 1..Len(text) |-> encodeToken(text[i])]

EncodedTokens == {encodeToken(t) : t \in StringTokens \cup {"{", "}"}}

\* decodeURIComponent of one token; a lone "%" is malformed
decodeToken(t) ==
  IF t \in EncodedTokens
    THEN CHOOSE u \in StringTokens \cup {"{", "}"} : encodeToken(u) = t
    ELSE t

decodeURIComponent(text) ==
  [threw |-> \E i \in 1..Len(text) : text[i] = "%",
   value |-> [i \in 1..Len(text) |-> decodeToken(text[i])]]

\* getCookie(STORAGE_KEYS.CONSENT): [threw, value]; value Absent for null
getCookie(jar) ==
  IF jar = Throws THEN [threw |-> TRUE, value |-> Absent]
  ELSE IF jar = Absent THEN [threw |-> FALSE, value |-> Absent]
  ELSE decodeURIComponent(jar)

\* mutant of setCookie: the entry is written whatever Max-Age says
setCookie_IgnoresMaxAge(value, maxAge) == encodeURIComponent(value)

\* setCookie(STORAGE_KEYS.CONSENT, value, {maxAge}): the entry of the cookie
\* jar afterwards (a Max-Age that is not positive expires the cookie)
setCookie(value, maxAge) ==
  IF maxAge <= 0 THEN Absent ELSE encodeURIComponent(value)

NotFound == [found |-> FALSE, data |-> [visitorId |-> Undefined, sessionId |-> Undefined,
                                        categories |-> DefaultConsent,
                                        timestamp |-> Undefined]]

\* one candidate text of getConsentFromStorage: JSON.parse then safeParse
\* "threw": the exception leaves the function through its catch
readCandidate(text) ==
  IF text = Absent \/ text = <<>>
    THEN [threw |-> FALSE, found |-> FALSE, data |-> NotFound.data]
    ELSE LET parsed == JSONparse(text)
         IN IF parsed.threw
              THEN [threw |-> TRUE, found |-> FALSE, data |-> NotFound.data]
            ELSE IF ConsentStateSchemaSuccess(parsed)
              THEN [threw |-> FALSE, found |-> TRUE, data |-> ConsentStateSchemaData(parsed)]
            ELSE [threw |-> FALSE, found |-> FALSE, data |-> NotFound.data]

\* the exception thrown inside the try block
Thrown == [threw |-> TRUE, found |-> FALSE, data |-> NotFound.data]

\* getConsentFromStorage, the body of its try block: cookie first, then
\* localStorage; "threw" when getCookie, localStorage.getItem or either
\* JSON.parse throws
loadAttempt(jar, localValue) ==
  LET c == getCookie(jar)
  IN IF c.threw THEN Thrown
     ELSE LET fromCookie == readCandidate(c.value)
          IN IF fromCookie.threw THEN Thrown
             ELSE IF fromCookie.found THEN fromCookie
             ELSE IF localValue = Throws THEN Thrown
             ELSE readCandidate(localValue)

\* getConsentFromStorage: any exception ends in the catch and the function
\* returns null
getConsentFromStorage(jar, localValue) ==
  LET r == loadAttempt(jar, localValue)
  IN IF r.threw \/ ~r.found THEN NotFound
     ELSE [found |-> TRUE, data |-> r.data]

\* mutant of getConsentFromStorageThrows: no catch around the body
getConsentFromStorageThrows_NoCatch(jar, localValue) ==
  loadAttempt(jar, localValue).threw

\* does getConsentFromStorage end by throwing: the catch logs the exception
\* and falls through to `return null`
getConsentFromStorageThrows(jar, localValue) ==
  IF loadAttempt(jar, localValue).threw THEN FALSE ELSE FALSE

\* cookieMaxAge default of the CookiePot constructor, in seconds
CookieMaxAge == 31536000

----------------------------------------------------------------------------
\* Visitor and session identifiers (visitor-id.ts). An identifier is one
\* token; the stores hold it as a one-token text.

\* the UUIDs crypto.randomUUID hands out, in the order it does
UuidPool == <<"visitor-1", "session-1", "uuid-3", "uuid-4">>
Uuids == {UuidPool[i] : i \in 1..Len(UuidPool)}

\* JSON.stringify of an identifier: the string token
jsonString(id) ==
  CASE id = "visitor-1" -> QVisitor [] id = "session-1" -> QSession
    [] id = "uuid-3" -> QUuid3 [] id = "uuid-4" -> QUuid4
    [] OTHER -> QEmpty

\* a stored text that is not a UUID
InvalidUuid == <<"invalid-uuid">>

\* isValidUUID
isValidUUID(value) == Len(value) = 1 /\ value[1] \in Uuids

\* the identifiers a text mentions, raw, as a JSON string or percent-encoded
idsInText(text) ==
  {id \in Uuids :
     \E i \in 1..Len(text) :
       text[i] \in {id, jsonString(id), encodeToken(jsonString(id))}}

\* generateVisitorId: a UUID that occurs nowhere yet
generateVisitorId(used) ==
  UuidPool[CHOOSE i \in 1..Len(UuidPool) :
             /\ UuidPool[i] \notin used
             /\ \A j \in 1..(i - 1) : UuidPool[j] \in used]

\* a Storage call made by the SDK itself: it goes through the override when
\* a StorageBlocker has patched the object
sdkSetItem(stores, isPatched, consent, st, key, value) ==
  IF \/ ~isPatched[st]
     \/ isAllowed(key)
     \/ sbHasConsent(consent, categorizeKey(key))
    THEN applyCall(stores, UnderCall("setItem", st, key, value))
    ELSE stores

\* saveToCookie: the cookiepot_visitor_id entry afterwards (the id's
\* characters need no escaping)
saveToCookie(visitorId) == <<visitorId>>

IdResult(id, stores, jar) == [id |-> id, stores |-> stores, jar |-> jar]

\* getOrCreateVisitorId, the cookie branch: localStorage.setItem(id)
visitorIdFromCookie(stores, isPatched, consent, id) ==
  sdkSetItem(stores, isPatched, consent, "localStorage", KeyVisitorId, <<id>>)

\* getOrCreateVisitorId: localStorage first, then the cookie, then a new
\* identifier; an exception anywhere ends in the catch, which returns a new
\* identifier and stores nothing more
getOrCreateVisitorId(stores, jar, isPatched, consent, used) ==
  LET stored == stores["localStorage"][KeyVisitorId]
      newId == generateVisitorId(used)
      c == getCookie(jar)
  IN IF stored = Throws THEN IdResult(newId, stores, jar)
     ELSE IF stored \notin {Absent, <<>>} /\ isValidUUID(stored)
       THEN IF jar = Throws
              THEN IdResult(newId, stores, jar)
              ELSE IdResult(stored[1], stores, saveToCookie(stored[1]))
     ELSE IF c.threw THEN IdResult(newId, stores, jar)
     ELSE IF c.value \notin {Absent, <<>>} /\ isValidUUID(c.value)
       THEN IdResult(c.value[1],
                     visitorIdFromCookie(stores, isPatched, consent, c.value[1]), jar)
     ELSE IdResult(newId,
                   sdkSetItem(stores, isPatched, consent, "localStorage",
                              KeyVisitorId, <<newId>>),
                   saveToCookie(newId))

\* getOrCreateSessionId: sessionStorage only; an exception ends in the catch
\* and a new identifier is returned unsaved
getOrCreateSessionId(stores, isPatched, consent, used) ==
  LET stored == stores["sessionStorage"][KeySessionId]
      newId == generateVisitorId(used)
  IN IF stored = Throws THEN IdResult(newId, stores, Absent)
     ELSE IF stored \notin {Absent, <<>>} /\ isValidUUID(stored)
       THEN IdResult(stored[1], stores, Absent)
     ELSE IdResult(newId,
                   sdkSetItem(stores, isPatched, consent, "sessionStorage",
                              KeySessionId, <<newId>>),
                   Absent)

----------------------------------------------------------------------------
\* Third-party signal adapter (google-consent-mode.ts)

grantedOrDenied(b) == IF b THEN "granted" ELSE "denied"

\* GoogleConsentModeManager.mapConsentToGoogle
mapConsentToGoogle(categories) ==
  [ad_storage |-> grantedOrDenied(categories.marketing),
   ad_user_data |-> grantedOrDenied(categories.marketing),
   ad_personalization |-> grantedOrDenied(categories.marketing),
   analytics_storage |-> grantedOrDenied(categories.analytics),
   functionality_storage |-> grantedOrDenied(categories.preferences),
   personalization_storage |-> grantedOrDenied(categories.preferences),
   security_storage |-> "granted"]

GtagSignal(kind, state) == [kind |-> kind, state |-> state]

\* GoogleConsentModeManager.initializeDefaults: the gtag calls it makes
initializeDefaults(enabled, available) ==
  IF ~enabled \/ ~available THEN <<>>
  ELSE <<GtagSignal("default",
           [ad_storage |-> "denied", ad_user_data |-> "denied",
            ad_personalization |-> "denied", analytics_storage |-> "denied",
            functionality_storage |-> "denied", personalization_storage |-> "denied",
            security_storage |-> "granted"])>>

\* GoogleConsentModeManager.updateConsent: the gtag calls it makes
gcmUpdateConsent(enabled, available, categories) ==
  IF ~enabled \/ ~available THEN <<>>
  ELSE <<GtagSignal("update", mapConsentToGoogle(categories))>>

\* window.gtag as the pages and tests define it (dataLayer.push(arguments)):
\* the layer after the calls, of which the first MaxDataLayer kinds are kept
gtagPush(layer, calls) ==
  LET all == layer \o [i \in 1..Len(calls) |-> calls[i].kind]
  IN SubSeq(all, 1, IF Len(all) < MaxDataLayer THEN Len(all) ELSE MaxDataLayer)

----------------------------------------------------------------------------
\* Remote collector client (api.ts)

\* how the fetch of APIClient.request can end
ReportOutcomes ==
  {"ok", "ok_unreadable_body", "error_status", "error_status_unreadable_body",
   "network_error", "timeout"}

\* APIClient.request / submitConsent: does the returned promise reject
submitConsentRejects(outcome) == outcome # "ok"

\* mutant of setConsentRejects: no catch around the awaited submitConsent
setConsentRejects_NoCatch(outcome) == submitConsentRejects(outcome)

\* CookiePot.setConsent, the try / catch around the awaited submitConsent:
\* does the promise setConsent returned reject
setConsentRejects(outcome) ==
  IF submitConsentRejects(outcome)
    THEN FALSE   \* catch: console.error, no rethrow
    ELSE FALSE

----------------------------------------------------------------------------
\* CookiePot orchestrator (client.ts)

\* a Partial<ConsentCategories> argument: each member "absent", "true", "false"
Partials ==
  [necessary : {"absent", "true", "false"}, analytics : {"absent", "true", "false"},
   marketing : {"absent", "true", "false"}, preferences : {"absent", "true", "false"}]

\* the arguments used where page code or a second engine runs alongside
FewPartials == {p \in Partials : p.necessary # "true" /\ p.preferences = "absent"}

NoPartial ==
  [necessary |-> "absent", analytics |-> "absent", marketing |-> "absent",
   preferences |-> "absent"]

AcceptAllPartial ==
  [necessary |-> "absent", analytics |-> "true", marketing |-> "true",
   preferences |-> "true"]

RejectAllPartial ==
  [necessary |-> "absent", analytics |-> "false", marketing |-> "false",
   preferences |-> "false"]

\* the ?? operator on one member
coalesce(given, current) == IF given = "absent" THEN current ELSE given = "true"

\* mutant of mergeConsent: the state read is the one persisted at page load
\* (nothing, so the defaults), not the current one
mergeConsent_StaleRead(categories, current) ==
  [necessary |-> TRUE,
   analytics |-> coalesce(categories.analytics, DefaultConsent.analytics),
   marketing |-> coalesce(categories.marketing, current.marketing),
   preferences |-> coalesce(categories.preferences, current.preferences)]

\* mutant of mergeConsent: members the caller omits fall back to false
mergeConsent_OmittedReset(categories, current) ==
  [necessary |-> TRUE,
   analytics |-> coalesce(categories.analytics, FALSE),
   marketing |-> coalesce(categories.marketing, FALSE),
   preferences |-> coalesce(categories.preferences, FALSE)]

\* mutant of mergeConsent: necessary is merged like the other members
mergeConsent_NecessaryMerged(categories, current) ==
  [necessary |-> coalesce(categories.necessary, current.necessary),
   analytics |-> coalesce(categories.analytics, current.analytics),
   marketing |-> coalesce(categories.marketing, current.marketing),
   preferences |-> coalesce(categories.preferences, current.preferences)]

\* CookiePot.setConsent: the object literal assigned to this.consentState
mergeConsent(categories, current) ==
  [necessary |-> TRUE,
   analytics |-> coalesce(categories.analytics, current.analytics),
   marketing |-> coalesce(categories.marketing, current.marketing),
   preferences |-> coalesce(categories.preferences, current.preferences)]

\* the ConsentState record setConsent saves
ConsentStateOf(categories) ==
  [visitorId |-> QVisitor, sessionId |-> QSession, categories |-> categories,
   timestamp |-> QStamp]

\* a call of localStorage.setItem / removeItem by the SDK itself: it goes
\* through the override when a StorageBlocker has patched the object
viaLocalStorage(call) ==
  IF \/ ~patched["localStorage"]
     \/ isAllowed(call.key)
     \/ sbHasConsent(sbConsent, categorizeKey(call.key))
    THEN applyCall(store, call)
    ELSE store

\* mutant of saveConsentToStorage: only the localStorage backup is written
saveConsentToStorage_LocalOnly(state, maxAge) ==
  [cookie |-> cookie,
   store |-> viaLocalStorage(UnderCall("setItem", "localStorage", KeyConsent,
                                       stringify(state)))]

\* saveConsentToStorage: the cookie jar entry and the stores afterwards; a
\* backend that throws ends the function in its catch
saveConsentToStorage(state, maxAge) ==
  IF cookie = Throws THEN [cookie |-> cookie, store |-> store]
  ELSE [cookie |-> setCookie(stringify(state), maxAge),
        store |-> IF store["localStorage"][KeyConsent] = Throws THEN store
                  ELSE viaLocalStorage(UnderCall("setItem", "localStorage", KeyConsent,
                                                 stringify(state)))]

\* clearConsentFromStorage
clearConsentFromStorage ==
  IF cookie = Throws THEN [cookie |-> cookie, store |-> store]
  ELSE [cookie |-> setCookie(<<>>, -1),
        store |-> IF store["localStorage"][KeyConsent] = Throws THEN store
                  ELSE viaLocalStorage(UnderCall("removeItem", "localStorage", KeyConsent,
                                                 Absent))]

Emitted(event, ref) == [event |-> event, payload |-> ref]

\* no listener ran
NoView == "none"

CpEvent(op, partial, emitted, gtag, rejected) ==
  [op |-> op, partial |-> partial, emitted |-> emitted, gtag |-> gtag,
   rejected |-> rejected, outcome |-> "none", view |-> NoView]

\* the objects some holder still references
Live(state, blocker, blockerRef, pageHeld) ==
  {state} \cup pageHeld \cup (IF blocker THEN {blockerRef} ELSE {})

WithObject(h, ref, value) ==
  [o \in (DOMAIN h) \cup {ref} |-> IF o = ref THEN value ELSE h[o]]

----------------------------------------------------------------------------
\* EventEmitter (event-emitter.ts). A handler is a function of the page:
\* "plain" returns, "throwing" throws, "remover" calls off(event, "plain")
\* for the event it is invoked with and returns.

EventNames == {"consent:change", "banner:accept_all"}
Handlers == {"plain", "throwing", "remover"}
Payloads == {"payload-1", "payload-2"}

\* new Map(): no event has handlers
NoHandlers == [event \in EventNames |-> <<>>]

\* Set.prototype.delete on an insertion-ordered set
setDelete(set, handler) == SelectSeq(set, LAMBDA h : h # handler)

\* Set.prototype.add: a member keeps its place
setAdd(set, handler) ==
  IF \E i \in 1..Len(set) : set[i] = handler THEN set ELSE Append(set, handler)

\* EventEmitter.on
emitterOn(map, event, handler) == [map EXCEPT ![event] = setAdd(@, handler)]

\* EventEmitter.off (an event whose set is empty has no entry)
emitterOff(map, event, handler) == [map EXCEPT ![event] = setDelete(@, handler)]

\* what a handler's body removes from the set it is being called from
removedBy(handler) == IF handler = "remover" THEN {"plain"} ELSE {}

handlerThrows(handler) == handler = "throwing"

\* mutant of afterCatch: the exception leaves emit
afterCatch_Rethrows(rest) == <<>>

\* EventEmitter.emit, the try / catch around handler(data): the exception
\* is logged and forEach goes on with the handlers still to visit
afterCatch(rest) == rest

\* EventEmitter.emit: Set.prototype.forEach over the live set, in insertion
\* order; an entry deleted before its turn is not visited
RECURSIVE emitForEach(_, _, _, _)
emitForEach(set, todo, data, acc) ==
  IF todo = <<>> THEN [acc EXCEPT !.set = set]
  ELSE LET h == Head(todo)
           keep(seq) == SelectSeq(seq, LAMBDA x : x \notin removedBy(h))
           called == [acc EXCEPT !.invoked = Append(@, [handler |-> h, data |-> data])]
       IN IF handlerThrows(h)
            THEN emitForEach(set, afterCatch(Tail(todo)), data,
                             [called EXCEPT !.logged = @ + 1])
            ELSE emitForEach(keep(set), keep(Tail(todo)), data, called)

\* EventEmitter.emit(event, data): the handlers invoked, the errors logged
\* and the set afterwards
emitterEmit(map, event, data) ==
  emitForEach(map[event], map[event], data,
              [invoked |-> <<>>, logged |-> 0, set |-> <<>>])

\* this.visitorId / this.sessionId before the constructor ran
NoIds == [visitorId |-> Undefined, sessionId |-> Undefined]

\* the identifiers that occur anywhere on the page or in its stores
usedIds ==
  idsInText(cookie) \cup idsInText(idCookie)
    \cup UNION {UNION {idsInText(store[st][k]) : k \in DOMAIN store[st]} :
                  st \in StorageTypes}
    \cup ({cpIds.visitorId, cpIds.sessionId} \cap Uuids)

\* the ConsentState record setConsent builds from this.visitorId,
\* this.sessionId and the merged categories
consentStateRecord(ids, categories) ==
  [visitorId |-> jsonString(ids.visitorId), sessionId |-> jsonString(ids.sessionId),
   categories |-> categories, timestamp |-> QStamp]

\* mutant of initialConsent: the stored record is ignored
initialConsent_AlwaysDefault(stored) == DefaultConsent

\* CookiePot constructor: the stored record's categories, or the defaults
initialConsent(stored) ==
  IF stored.found THEN stored.data.categories ELSE DefaultConsent

\* new CookiePot(config): the constructor
CpConstruct(cfg) ==
  LET visitor == getOrCreateVisitorId(store, idCookie, patched, sbConsent, usedIds)
      session == getOrCreateSessionId(visitor.stores, patched, sbConsent,
                                      usedIds \cup {visitor.id})
      stored == getConsentFromStorage(cookie, store["localStorage"][KeyConsent])
      ref == Alloc(heap)
      categories == initialConsent(stored)
  IN /\ cpInstance' = TRUE
     /\ cpIds' = [visitorId |-> visitor.id, sessionId |-> session.id]
     /\ idCookie' = visitor.jar
     /\ store' = session.stores
     /\ cpConfig' = cfg
     /\ cpConsentState' = ref
     /\ heap' = WithObject(heap, ref, categories)
     /\ cpGcm' = cfg.enableGoogleConsentMode
     /\ cpBlocker' = cfg.autoBlock
     /\ IF cfg.autoBlock
          THEN /\ abConsent' = ref
               /\ abEnabled' = TRUE
               /\ abObserver' = observerStart(TRUE, FALSE, abConnected).observer
               /\ abConnected' = observerStart(TRUE, FALSE, abConnected).connected
               /\ abEv' = [op |-> "start"]
               /\ UNCHANGED <<abBlocked, nodes, doc, mutQ>>
          ELSE UNCHANGED abVars
     /\ cpEv' = CpEvent("init", NoPartial, <<>>,
                        initializeDefaults(cfg.enableGoogleConsentMode, gtagAvailable)
                          \o gcmUpdateConsent(cfg.enableGoogleConsentMode, gtagAvailable,
                                              categories),
                        FALSE)
     /\ dataLayer' = gtagPush(dataLayer, cpEv'.gtag)
     /\ UNCHANGED <<reports, events, cookie, held, pending, gtagAvailable,
                    sbActive, sbConsent, sbQueue, sbOrig, sbConfig, patched, sbEv>>

\* mutant of initReturnsExisting: init constructs on every call
initReturnsExisting_Never(instance) == FALSE

\* CookiePot.init: if (CookiePot.instance) { warn; return CookiePot.instance }
initReturnsExisting(instance) == instance

\* static CookiePot.init(config)
cpInitCall(cfg) ==
  IF initReturnsExisting(cpInstance)
    THEN /\ cpEv' = [CpEvent("init", NoPartial, <<>>, <<>>, FALSE)
                      EXCEPT !.outcome = IF cfg = cpConfig THEN "existing"
                                         ELSE "existing, other config"]
         /\ UNCHANGED <<reports, events, idCookie, cpIds, cpInstance, cpConfig, cpConsentState, cpGcm, cpBlocker,
                        cookie, held, pending, gtagAvailable, dataLayer, heap, sbVars, abVars>>
    ELSE CpConstruct(cfg)

\* the page's first CookiePot.init(config)
CpInit(cfg) ==
  /\ ~cpInstance
  /\ cpInitCall(cfg)

\* a later CookiePot.init(config), with any configuration
CpInitAgain(cfg) ==
  /\ cpInstance
  /\ cpInitCall(cfg)

\* mutant of getConsentResult: the internal object itself is returned
getConsentResult_NoCopy(h, state) == [heap |-> h, ref |-> state]

\* CookiePot.getConsent: { ...this.consentState }, a new object
getConsentResult(h, state) ==
  [heap |-> WithObject(h, Alloc(h), h[state]), ref |-> Alloc(h)]

\* page code calls getConsent() and keeps the result
GetConsent ==
  /\ cpInstance
  /\ Cardinality(held) < MaxHeld
  /\ LET r == getConsentResult(heap, cpConsentState)
     IN /\ heap' = r.heap
        /\ held' = held \cup {r.ref}
  /\ cpEv' = CpEvent("getConsent", NoPartial, <<>>, <<>>, FALSE)
  /\ UNCHANGED <<reports, events, idCookie, cpIds, cpInstance, cpConfig, cpConsentState, cpGcm, cpBlocker, cookie,
                 pending, gtagAvailable, dataLayer, sbVars, abVars>>

\* page code writes a member of an object it got from getConsent()
MutateHeld(ref, member) ==
  /\ ref \in held
  /\ heap' = [heap EXCEPT ![ref][member] = ~@]
  /\ cpEv' = CpEvent("mutate", NoPartial, <<>>, <<>>, FALSE)
  /\ UNCHANGED <<reports, events, idCookie, cpIds, cpInstance, cpConfig, cpConsentState, cpGcm, cpBlocker, cookie,
                 held, pending, gtagAvailable, dataLayer, sbVars, abVars>>

\* a listener of the page keeps the payload it was called with: the emit
\* calls pass this.consentState itself (part_002 339, 371, 386, 402)
KeepPayload(i) ==
  /\ i \in 1..Len(cpEv.emitted)
  /\ cpEv.emitted[i].payload \in DOMAIN heap
  /\ cpEv.emitted[i].payload \notin held
  /\ Cardinality(held) < MaxHeld
  /\ held' = held \cup {cpEv.emitted[i].payload}
  /\ cpEv' = [cpEv EXCEPT !.op = "keep"]
  /\ UNCHANGED <<reports, events, idCookie, cpIds, cpInstance, cpConfig, cpConsentState, cpGcm, cpBlocker, cookie,
                 heap, pending, gtagAvailable, dataLayer, sbVars, abVars>>

\* page code forgets an object it got from getConsent()
DropHeld(ref) ==
  /\ ref \in held
  /\ held' = held \ {ref}
  /\ heap' = Restrict(heap, Live(cpConsentState, cpBlocker, abConsent, held'))
  /\ cpEv' = CpEvent("drop", NoPartial, <<>>, <<>>, FALSE)
  /\ UNCHANGED <<reports, events, idCookie, cpIds, cpInstance, cpConfig, cpConsentState, cpGcm, cpBlocker, cookie,
                 pending, gtagAvailable, dataLayer, sbVars, abVars>>

\* mutant of setConsentOrder: the notification comes first
setConsentOrder_EmitFirst == <<"emit", "state", "save", "gcm", "blocker", "report">>

\* CookiePot.setConsent, its statements in source order: the assignment of
\* this.consentState, saveConsentToStorage, googleConsentMode.updateConsent,
\* scriptAutoBlocker.updateConsent, this.emit, await submitConsent
setConsentOrder == <<"state", "save", "gcm", "blocker", "emit", "report">>

stageIndex(stage) ==
  CHOOSE i \in 1..Len(setConsentOrder) : setConsentOrder[i] = stage

\* the statement of setConsent that changes each thing a listener can look at
viewStage ==
  [consent |-> "state", cookie |-> "save", local |-> "save", gtag |-> "gcm",
   engine |-> "blocker"]

\* what a listener of consent:change finds when it runs: the effects of the
\* statements before this.emit, and the old values for the later ones
listenerView(before, after) ==
  [f \in DOMAIN viewStage |->
     IF stageIndex(viewStage[f]) < stageIndex("emit") THEN after[f] ELSE before[f]]

\* CookiePot.setConsent up to the await: everything the call does before
\* the remote report is in flight
setConsentSync(categories, op, caller) ==
  LET ref == Alloc(heap)
      merged == mergeConsent(categories, heap[cpConsentState])
      saved == saveConsentToStorage(consentStateRecord(cpIds, merged),
                                    cpConfig.cookieMaxAge)
      sent == gcmUpdateConsent(cpGcm, gtagAvailable, merged)
      before == [consent |-> heap[cpConsentState], cookie |-> cookie,
                 local |-> store["localStorage"][KeyConsent], gtag |-> <<>>,
                 engine |-> IF cpBlocker THEN heap[abConsent] ELSE NoView]
      after == [consent |-> merged, cookie |-> saved.cookie,
                local |-> saved.store["localStorage"][KeyConsent], gtag |-> sent,
                engine |-> IF cpBlocker THEN merged ELSE NoView]
  IN /\ cpConsentState' = ref
     /\ heap' = Restrict(WithObject(heap, ref, merged),
                         Live(ref, cpBlocker, ref, held))
     /\ cookie' = saved.cookie
     /\ store' = saved.store
     /\ IF cpBlocker THEN abUpdateConsent(ref) ELSE UNCHANGED abVars
     /\ cpEv' = [CpEvent(op, categories, <<Emitted("consent:change", ref)>>,
                         sent, FALSE)
                   EXCEPT !.view = listenerView(before, after)]
     /\ dataLayer' = gtagPush(dataLayer, cpEv'.gtag)
     /\ pending' = Append(pending, caller)
     /\ UNCHANGED <<events, idCookie, cpIds, cpInstance, cpConfig, cpGcm, cpBlocker, held, gtagAvailable,
                    sbActive, sbConsent, sbQueue, sbOrig, sbConfig, patched, sbEv>>

\* CookiePot.setConsent(categories)
SetConsent(categories) ==
  /\ cpInstance
  /\ Len(pending) < MaxPending
  /\ setConsentSync(categories, "setConsent", "setConsent")
  /\ UNCHANGED reports

\* CookiePot.acceptAll, up to the await of setConsent
AcceptAll ==
  /\ cpInstance
  /\ Len(pending) < MaxPending
  /\ setConsentSync(AcceptAllPartial, "acceptAll", "acceptAll")
  /\ UNCHANGED reports

\* CookiePot.rejectAll, up to the await of setConsent
RejectAll ==
  /\ cpInstance
  /\ Len(pending) < MaxPending
  /\ setConsentSync(RejectAllPartial, "rejectAll", "rejectAll")
  /\ UNCHANGED reports

\* the promise of the i-th pending submitConsent settles; setConsent
\* resumes after its await, and acceptAll / rejectAll after theirs
settle(i, outcome) ==
  /\ i \in 1..Len(pending)
  /\ pending' = SubSeq(pending, 1, i - 1) \o SubSeq(pending, i + 1, Len(pending))
  /\ cpEv' = [CpEvent("settled", NoPartial,
                      IF setConsentRejects(outcome) THEN <<>>
                      ELSE IF pending[i] = "acceptAll"
                        THEN <<Emitted("banner:accept_all", cpConsentState)>>
                      ELSE IF pending[i] = "rejectAll"
                        THEN <<Emitted("banner:reject_all", cpConsentState)>>
                      ELSE <<>>,
                      <<>>, setConsentRejects(outcome))
                EXCEPT !.outcome = outcome]
  /\ UNCHANGED <<events, idCookie, cpIds, cpInstance, cpConfig, cpConsentState, cpGcm, cpBlocker, cookie,
                 held, gtagAvailable, dataLayer, heap, sbVars, abVars>>

\* the remote report of the i-th pending call settles, whatever the request
\* went through
ReportSettles(i, outcome) ==
  /\ settle(i, outcome)
  /\ UNCHANGED reports

\* CookiePot.resetConsent
ResetConsent ==
  LET ref == Alloc(heap)
      cleared == clearConsentFromStorage
  IN /\ cpInstance
     /\ cookie' = cleared.cookie
     /\ store' = cleared.store
     /\ cpConsentState' = ref
     /\ heap' = Restrict(WithObject(heap, ref, DefaultConsent),
                         Live(ref, cpBlocker, abConsent, held))
     /\ cpEv' = CpEvent("resetConsent", NoPartial,
                        <<Emitted("consent:change", ref)>>, <<>>, FALSE)
     /\ UNCHANGED <<reports, events, idCookie, cpIds, cpInstance, cpConfig, cpGcm, cpBlocker, held, pending,
                    gtagAvailable, dataLayer, abVars,
                    sbActive, sbConsent, sbQueue, sbOrig, sbConfig, patched, sbEv>>

\* the configurations CookiePot.init is called with
Configs ==
  [enableGoogleConsentMode : BOOLEAN, autoBlock : BOOLEAN,
   cookieMaxAge : {CookieMaxAge}]

\* what an earlier visit may have left under the consent key
ValidStored(categories) == stringify(ConsentStateOf(categories))

StoredNecessaryFalse ==
  stringify(ConsentStateOf([DefaultConsent EXCEPT !.necessary = FALSE,
                                                  !.marketing = TRUE]))

MalformedCookie == <<"%7B", "visitorId">>

\* <<cookie entry, localStorage entry>> at page load
PersistedAtLoad ==
  {<<Absent, Absent>>,
   <<encodeURIComponent(ValidStored([DefaultConsent EXCEPT !.analytics = TRUE])), Absent>>,
   <<Absent, ValidStored([DefaultConsent EXCEPT !.marketing = TRUE, !.preferences = TRUE])>>,
   <<encodeURIComponent(StoredNecessaryFalse),
     ValidStored([DefaultConsent EXCEPT !.marketing = TRUE, !.preferences = TRUE])>>,
   <<MalformedCookie, ValidStored([DefaultConsent EXCEPT !.analytics = TRUE])>>,
   <<Absent, StoredNecessaryFalse>>}

\* a page load before CookiePot.init: no instance, a StorageBlocker object
\* that was never started, what an earlier visit persisted, the configuration
\* the page will pass to init
PageLoad(persisted, configs) ==
  /\ IdleScript
  /\ sbActive = FALSE
  /\ sbConsent = DefaultConsent
  /\ sbQueue = <<>>
  /\ sbOrig = [st \in StorageTypes |-> "null"]
  /\ sbConfig = [queueOperations |-> TRUE, maxQueueSize |-> MaxQueueSize,
                 patterns |-> configPatterns]
  /\ patched = [st \in StorageTypes |-> FALSE]
  /\ \E p \in persisted :
       /\ cookie = p[1]
       /\ idCookie = IF p = <<Absent, Absent>> THEN Absent ELSE saveToCookie("visitor-1")
       /\ store = [st \in StorageTypes |->
                     IF st = "localStorage"
                       THEN [EmptyStorage EXCEPT
                               ![KeyConsent] = p[2],
                               ![KeyVisitorId] = IF p = <<Absent, Absent>> THEN Absent
                                                 ELSE <<"visitor-1">>]
                     ELSE EmptyStorage]
  /\ cpIds = NoIds
  /\ events = NoHandlers
  /\ sbEv = [op |-> "new", call |-> NoCall, under |-> <<>>, n |-> 0]
  /\ cpInstance = FALSE
  /\ cpConfig \in configs
  /\ cpConsentState = 0
  /\ cpGcm = FALSE
  /\ cpBlocker = FALSE
  /\ held = {}
  /\ pending = <<>>
  /\ reports = <<>>
  /\ gtagAvailable \in (IF cpConfig.enableGoogleConsentMode THEN BOOLEAN ELSE {FALSE})
  /\ dataLayer = <<>>
  /\ cpEv = CpEvent("none", NoPartial, <<>>, <<>>, FALSE)

Init == PageLoad(PersistedAtLoad, Configs)

\* a first visit: nothing persisted
InitWiring == PageLoad({<<Absent, Absent>>}, Configs)

\* a page without the third-party signal adapter
InitCopy ==
  PageLoad({<<Absent, Absent>>}, {c \in Configs : ~c.enableGoogleConsentMode})

\* a page that never calls CookiePot.init
IdleClient ==
  /\ cpInstance = FALSE
  /\ cpConfig = [enableGoogleConsentMode |-> FALSE, autoBlock |-> FALSE,
                 cookieMaxAge |-> CookieMaxAge]
  /\ cpConsentState = 0
  /\ cpGcm = FALSE
  /\ cpBlocker = FALSE
  /\ cookie = Absent
  /\ idCookie = Absent
  /\ cpIds = NoIds
  /\ events = NoHandlers
  /\ held = {}
  /\ pending = <<>>
  /\ reports = <<>>
  /\ gtagAvailable = FALSE
  /\ dataLayer = <<>>
  /\ cpEv = CpEvent("none", NoPartial, <<>>, <<>>, FALSE)

\* the orchestrator alone
Next ==
  \/ CpInit(cpConfig)
  \/ \E cfg \in Configs : CpInitAgain(cfg)
  \/ \E categories \in Partials : SetConsent(categories)
  \/ AcceptAll
  \/ RejectAll
  \/ \E i \in 1..Len(pending), outcome \in ReportOutcomes : ReportSettles(i, outcome)
  \/ ResetConsent

Spec == Init /\ [][Next]_vars

\* the orchestrator on a page that also runs a StorageBlocker of its own
NextWiring ==
  \/ CpInit(cpConfig)
  \/ \E categories \in FewPartials : SetConsent(categories)
  \/ AcceptAll
  \/ RejectAll
  \/ \E i \in 1..Len(pending), outcome \in {"ok", "timeout"} : ReportSettles(i, outcome)
  \/ SbStart
  \/ \E k \in {KeyGa, KeyApp} : SetItem("localStorage", k, <<"v">>)

SpecWiring == InitWiring /\ [][NextWiring]_vars

\* the orchestrator and page code that reads the consent state
NextCopy ==
  \/ CpInit(cpConfig)
  \/ GetConsent
  \/ \E ref \in held, member \in {"necessary", "analytics"} : MutateHeld(ref, member)
  \/ \E ref \in held : DropHeld(ref)
  \/ \E categories \in {p \in FewPartials : p.marketing = "absent"} : SetConsent(categories)
  \/ \E i \in 1..Len(pending), outcome \in {"ok", "timeout"} : ReportSettles(i, outcome)
  \/ ResetConsent

SpecCopy == InitCopy /\ [][NextCopy]_vars

\* the orchestrator and page code whose listeners keep what they are handed
NextAlias ==
  \/ CpInit(cpConfig)
  \/ \E i \in 1..Len(cpEv.emitted) : KeepPayload(i)
  \/ \E ref \in held : MutateHeld(ref, "analytics")
  \/ \E ref \in held : DropHeld(ref)
  \/ AcceptAll
  \/ RejectAll
  \/ \E i \in 1..Len(pending) : ReportSettles(i, "ok")

SpecAlias == InitCopy /\ [][NextAlias]_vars

\* a returning or a first visit, on a page without the signal adapter
InitRecord ==
  PageLoad(PersistedAtLoad, {c \in Configs : ~c.enableGoogleConsentMode})

\* the orchestrator's calls that read or write the stored record
NextRecord ==
  \/ CpInit(cpConfig)
  \/ CpInitAgain(cpConfig)
  \/ \E categories \in FewPartials : SetConsent(categories)
  \/ AcceptAll
  \/ RejectAll
  \/ \E i \in 1..Len(pending), outcome \in {"ok", "timeout"} : ReportSettles(i, outcome)
  \/ ResetConsent

SpecRecord == InitRecord /\ [][NextRecord]_vars

\* the page's gtag snippet or gtag.js defines window.gtag
GtagLoads ==
  /\ cpConfig.enableGoogleConsentMode
  /\ ~gtagAvailable
  /\ gtagAvailable' = TRUE
  /\ cpEv' = CpEvent("gtagLoads", NoPartial, <<>>, <<>>, FALSE)
  /\ UNCHANGED <<reports, events, idCookie, cpIds, cpInstance, cpConfig, cpConsentState, cpGcm, cpBlocker, cookie,
                 held, pending, dataLayer, heap, sbVars, abVars>>

\* a page that enables the signal adapter; window.gtag may be defined before
\* or after CookiePot.init
InitSignal ==
  PageLoad({<<Absent, Absent>>,
            <<encodeURIComponent(ValidStored([DefaultConsent EXCEPT !.analytics = TRUE])),
              Absent>>},
           {c \in Configs : c.enableGoogleConsentMode})

NextSignal ==
  \/ CpInit(cpConfig)
  \/ GtagLoads
  \/ \E categories \in FewPartials : SetConsent(categories)
  \/ AcceptAll
  \/ RejectAll
  \/ \E i \in 1..Len(pending), outcome \in {"ok", "timeout"} : ReportSettles(i, outcome)
  \/ ResetConsent

SpecSignal == InitSignal /\ [][NextSignal]_vars

\* the browsing session ends (the last tab closes): the page and its objects
\* are gone and sessionStorage is dropped; localStorage and the cookies that
\* carry a Max-Age stay for the next session
SessionEnds ==
  /\ cpInstance
  /\ store' = [store EXCEPT !["sessionStorage"] = EmptyStorage]
  /\ cpInstance' = FALSE
  /\ cpConsentState' = 0
  /\ cpGcm' = FALSE
  /\ cpBlocker' = FALSE
  /\ cpIds' = NoIds
  /\ held' = {}
  /\ pending' = <<>>
  /\ reports' = <<>>
  /\ dataLayer' = <<>>
  /\ heap' = <<>>
  /\ abConsent' = 0
  /\ abEnabled' = FALSE
  /\ abObserver' = FALSE
  /\ abConnected' = 0
  /\ abBlocked' = <<>>
  /\ nodes' = <<>>
  /\ doc' = <<>>
  /\ mutQ' = <<>>
  /\ abEv' = [op |-> "none"]
  /\ cpEv' = [op |-> "sessionEnds", ended |-> cpIds.sessionId]
  /\ events' = NoHandlers
  /\ UNCHANGED <<reports, cpConfig, cookie, idCookie, gtagAvailable,
                 sbActive, sbConsent, sbQueue, sbOrig, sbConfig, patched, sbEv>>

\* a first visit, followed by any number of browsing sessions
InitSession == PageLoad({<<Absent, Absent>>}, {c \in Configs : ~c.enableGoogleConsentMode})

NextSession ==
  \/ CpInit(cpConfig)
  \/ \E categories \in FewPartials : SetConsent(categories)
  \/ \E i \in 1..Len(pending), outcome \in {"ok", "timeout"} : ReportSettles(i, outcome)
  \/ ResetConsent
  \/ SessionEnds

SpecSession == InitSession /\ [][NextSession]_vars

----------------------------------------------------------------------------
\* getOrCreateVisitorId called directly (visitor-id.test.ts calls it this
\* way), with the two backends tampered with between calls

\* what either backend may hold under the visitor-id key at page load
VisitorIdContents ==
  {Absent, <<>>, Throws, InvalidUuid, <<"visitor-1">>, <<"session-1">>}

\* one call of getOrCreateVisitorId as a test would observe it: the value
\* returned, and the backends changed from outside since the last call
VisitorEvent(op, id, tampered) == [op |-> op, id |-> id, tampered |-> tampered]

\* getOrCreateVisitorId()
GetOrCreateVisitorId ==
  LET r == getOrCreateVisitorId(store, idCookie, patched, sbConsent, usedIds)
  IN /\ store' = r.stores
     /\ idCookie' = r.jar
     /\ cpEv' = VisitorEvent("getOrCreateVisitorId", r.id, {})
     /\ UNCHANGED <<reports, events, cpIds, cpInstance, cpConfig, cpConsentState, cpGcm, cpBlocker,
                    cookie, held, pending, gtagAvailable, dataLayer>>
     /\ UNCHANGED <<heap, abVars>>
     /\ UNCHANGED <<sbActive, sbConsent, sbQueue, sbOrig, sbConfig, patched, sbEv>>

\* something other than the SDK removes or overwrites the localStorage entry
TamperLocal(value) ==
  /\ store["localStorage"][KeyVisitorId] \notin {Throws, value}
  /\ store' = [store EXCEPT !["localStorage"][KeyVisitorId] = value]
  /\ cpEv' = VisitorEvent("tamper", cpEv.id, cpEv.tampered \cup {"localStorage"})
  /\ UNCHANGED <<reports, events, idCookie, cpIds, cpInstance, cpConfig, cpConsentState, cpGcm,
                 cpBlocker, cookie, held, pending, gtagAvailable, dataLayer>>
  /\ UNCHANGED <<heap, abVars>>
  /\ UNCHANGED <<sbActive, sbConsent, sbQueue, sbOrig, sbConfig, patched, sbEv>>

\* something other than the SDK removes or overwrites the cookie
TamperCookie(value) ==
  /\ idCookie \notin {Throws, value}
  /\ idCookie' = value
  /\ cpEv' = VisitorEvent("tamper", cpEv.id, cpEv.tampered \cup {"cookie"})
  /\ UNCHANGED <<reports, events, cpIds, cpInstance, cpConfig, cpConsentState, cpGcm,
                 cpBlocker, cookie, held, pending, gtagAvailable, dataLayer>>
  /\ UNCHANGED <<heap, abVars, sbVars>>

\* a page with no SDK object, whose two visitor-id backends hold anything
InitVisitor ==
  /\ IdleScript
  /\ sbActive = FALSE
  /\ sbConsent = DefaultConsent
  /\ sbQueue = <<>>
  /\ sbOrig = [st \in StorageTypes |-> "null"]
  /\ sbConfig = [queueOperations |-> TRUE, maxQueueSize |-> MaxQueueSize,
                 patterns |-> configPatterns]
  /\ patched = [st \in StorageTypes |-> FALSE]
  /\ \E local \in VisitorIdContents :
       store = [st \in StorageTypes |->
                  IF st = "localStorage"
                    THEN [EmptyStorage EXCEPT ![KeyVisitorId] = local]
                    ELSE EmptyStorage]
  /\ sbEv = [op |-> "new", call |-> NoCall, under |-> <<>>, n |-> 0]
  /\ cpInstance = FALSE
  /\ cpConfig = [enableGoogleConsentMode |-> FALSE, autoBlock |-> FALSE,
                 cookieMaxAge |-> CookieMaxAge]
  /\ cpConsentState = 0
  /\ cpGcm = FALSE
  /\ cpBlocker = FALSE
  /\ cookie = Absent
  /\ idCookie \in VisitorIdContents \cup {<<"%">>}
  /\ cpIds = NoIds
  /\ events = NoHandlers
  /\ held = {}
  /\ pending = <<>>
  /\ reports = <<>>
  /\ gtagAvailable = FALSE
  /\ dataLayer = <<>>
  /\ cpEv = VisitorEvent("none", Undefined, {})

NextVisitor ==
  \/ GetOrCreateVisitorId
  \/ \E value \in {Absent, <<>>, InvalidUuid} : TamperLocal(value)
  \/ \E value \in {Absent, InvalidUuid, <<"%">>} : TamperCookie(value)

SpecVisitor == InitVisitor /\ [][NextVisitor]_vars

----------------------------------------------------------------------------
\* An EventEmitter used directly (event-emitter tests use it this way)

\* one call on the emitter as a test would observe it
EmitterEvent(op, event, handler, data, invoked, logged) ==
  [op |-> op, event |-> event, handler |-> handler, data |-> data,
   invoked |-> invoked, logged |-> logged]

\* emitter.on(event, handler)
EmitterOn(event, handler) ==
  /\ events' = emitterOn(events, event, handler)
  /\ cpEv' = EmitterEvent("on", event, handler, "none", <<>>, 0)
  /\ UNCHANGED <<reports, idCookie, cpIds, cpInstance, cpConfig, cpConsentState, cpGcm,
                 cpBlocker, cookie, held, pending, gtagAvailable, dataLayer>>
  /\ UNCHANGED <<heap, abVars, sbVars>>

\* emitter.off(event, handler)
EmitterOff(event, handler) ==
  /\ events' = emitterOff(events, event, handler)
  /\ cpEv' = EmitterEvent("off", event, handler, "none", <<>>, 0)
  /\ UNCHANGED <<reports, idCookie, cpIds, cpInstance, cpConfig, cpConsentState, cpGcm,
                 cpBlocker, cookie, held, pending, gtagAvailable, dataLayer>>
  /\ UNCHANGED <<heap, abVars, sbVars>>

\* emitter.emit(event, data)
EmitterEmit(event, data) ==
  LET r == emitterEmit(events, event, data)
  IN /\ events' = [events EXCEPT ![event] = r.set]
     /\ cpEv' = EmitterEvent("emit", event, "none", data, r.invoked, r.logged)
     /\ UNCHANGED <<reports, idCookie, cpIds, cpInstance, cpConfig, cpConsentState, cpGcm,
                    cpBlocker, cookie, held, pending, gtagAvailable, dataLayer>>
     /\ UNCHANGED <<heap, abVars, sbVars>>

\* a page that made an emitter and nothing else
InitEmitter ==
  /\ IdleStorage
  /\ IdleScript
  /\ cpInstance = FALSE
  /\ cpConfig = [enableGoogleConsentMode |-> FALSE, autoBlock |-> FALSE,
                 cookieMaxAge |-> CookieMaxAge]
  /\ cpConsentState = 0
  /\ cpGcm = FALSE
  /\ cpBlocker = FALSE
  /\ cookie = Absent
  /\ idCookie = Absent
  /\ cpIds = NoIds
  /\ events = NoHandlers
  /\ held = {}
  /\ pending = <<>>
  /\ reports = <<>>
  /\ gtagAvailable = FALSE
  /\ dataLayer = <<>>
  /\ cpEv = EmitterEvent("new", "none", "none", "none", <<>>, 0)

NextEmitter ==
  \/ \E event \in EventNames, handler \in Handlers : EmitterOn(event, handler)
  \/ \E event \in EventNames, handler \in Handlers : EmitterOff(event, handler)
  \/ \E event \in EventNames, data \in Payloads : EmitterEmit(event, data)

SpecEmitter == InitEmitter /\ [][NextEmitter]_vars

----------------------------------------------------------------------------
\* Calls made while the reports of earlier calls are still in flight

\* setConsent, acceptAll or rejectAll called again before earlier reports settled
OverlappingCall(op, categories) ==
  /\ cpInstance
  /\ Len(pending) < MaxOverlap
  /\ setConsentSync(categories, op, op)
  /\ UNCHANGED reports

InitOverlap ==
  PageLoad({<<Absent, Absent>>}, {c \in Configs : ~c.enableGoogleConsentMode})

NextOverlap ==
  \/ CpInit(cpConfig)
  \/ \E categories \in FewPartials : OverlappingCall("setConsent", categories)
  \/ OverlappingCall("acceptAll", AcceptAllPartial)
  \/ OverlappingCall("rejectAll", RejectAllPartial)
  \/ \E i \in 1..Len(pending), outcome \in {"ok", "timeout"} : ReportSettles(i, outcome)
  \/ ResetConsent

SpecOverlap == InitOverlap /\ [][NextOverlap]_vars

----------------------------------------------------------------------------
\* The remote report step by step (APIClient.request, api.ts)

\* request(): new AbortController, setTimeout(abort, timeout), fetch started
newRequest == [stage |-> "fetch", timer |-> TRUE, ok |-> FALSE]

\* request() after `await fetch` returned a response: clearTimeout, then
\* await response.json()
afterResponse(ok) == [stage |-> "body", timer |-> FALSE, ok |-> ok]

\* what the promise of request() settles with once the body was read or
\* could not be parsed
bodyOutcome(ok, readable) ==
  IF ok THEN (IF readable THEN "ok" ELSE "ok_unreadable_body")
  ELSE (IF readable THEN "error_status" ELSE "error_status_unreadable_body")

dropReport(i) == SubSeq(reports, 1, i - 1) \o SubSeq(reports, i + 1, Len(reports))

\* setConsent, acceptAll or rejectAll on a page that waits for each call
\* before the next; submitConsent starts the request
ReportedCall(op, categories) ==
  /\ cpInstance
  /\ pending = <<>>
  /\ setConsentSync(categories, op, op)
  /\ reports' = Append(reports, newRequest)

\* the collector answers: fetch resolves with the response (status ok or not)
ResponseArrives(i, ok) ==
  /\ i \in 1..Len(reports)
  /\ reports[i].stage = "fetch"
  /\ reports' = [reports EXCEPT ![i] = afterResponse(ok)]
  /\ UNCHANGED <<events, idCookie, cpIds, cpInstance, cpConfig, cpConsentState, cpGcm,
                 cpBlocker, cookie, held, pending, gtagAvailable, dataLayer, cpEv>>
  /\ UNCHANGED <<heap, abVars, sbVars>>

\* the network fails: fetch rejects, the catch rethrows NETWORK_ERROR
FetchRejects(i) ==
  /\ i \in 1..Len(reports)
  /\ reports[i].stage = "fetch"
  /\ settle(i, "network_error")
  /\ reports' = dropReport(i)

\* the timer set by request() fires: controller.abort() rejects what the
\* request awaits with AbortError, the catch rethrows REQUEST_TIMEOUT
TimerFires(i) ==
  /\ i \in 1..Len(reports)
  /\ reports[i].timer
  /\ settle(i, "timeout")
  /\ reports' = dropReport(i)

\* the collector finishes the response body: response.json() settles
BodyCompletes(i, readable) ==
  /\ i \in 1..Len(reports)
  /\ reports[i].stage = "body"
  /\ settle(i, bodyOutcome(reports[i].ok, readable))
  /\ reports' = dropReport(i)

InitReport ==
  PageLoad({<<Absent, Absent>>},
           {c \in Configs : ~c.enableGoogleConsentMode /\ ~c.autoBlock})

NextReport ==
  \/ CpInit(cpConfig)
  \/ \E categories \in FewPartials : ReportedCall("setConsent", categories)
  \/ ReportedCall("acceptAll", AcceptAllPartial)
  \/ ReportedCall("rejectAll", RejectAllPartial)
  \/ \E i \in 1..MaxPending, ok \in BOOLEAN : ResponseArrives(i, ok)
  \/ \E i \in 1..MaxPending : FetchRejects(i)
  \/ \E i \in 1..MaxPending : TimerFires(i)
  \/ \E i \in 1..MaxPending, readable \in BOOLEAN : BodyCompletes(i, readable)

\* an armed timer fires unless it is cleared first; whether and when the
\* collector answers or finishes its response is up to the collector
SpecReport ==
  InitReport /\ [][NextReport]_vars /\ WF_vars(\E i \in 1..MaxPending : TimerFires(i))

\* a page that runs a StorageBlocker only
InitStoragePage == InitStorage /\ IdleScript /\ IdleClient

SpecStorage == InitStoragePage /\ [][NextStorage]_vars

\* a page that runs a ScriptAutoBlocker only
InitScriptPage == InitScript /\ IdleStorage /\ IdleClient

SpecScript == InitScriptPage /\ [][NextScript]_vars

\* an engine that was started on an empty document and is never stopped
InitObserving ==
  /\ \E c \in ConsentCategories : heap = [o \in {1} |-> c]
  /\ abConsent = 1
  /\ abEnabled = TRUE
  /\ abObserver = TRUE
  /\ abConnected = 1
  /\ abBlocked = <<>>
  /\ nodes = <<>>
  /\ doc = <<>>
  /\ mutQ = <<>>
  /\ abEv = [op |-> "start"]
  /\ IdleStorage
  /\ IdleClient

NextObserving ==
  \/ ObserverCallback
  \/ \E c \in ConsentCategories : AbUpdateConsent(c)
  \/ \E kind \in ScriptKinds, i \in 1..(Len(doc) + 1) : InsertScript(kind, i)
  \/ \E kind \in ScriptKinds, i \in 1..(Len(doc) + 1) : InsertSubtree(kind, i)
  \/ \E n \in DOMAIN nodes : RemoveScript(n)

SpecObserving == InitObserving /\ [][NextObserving]_vars

\* the same engine on a page that also moves the script elements it inserted
NextMoving ==
  \/ ObserverCallback
  \/ \E c \in {DefaultConsent, [DefaultConsent EXCEPT !.analytics = TRUE]} :
       AbUpdateConsent(c)
  \/ \E kind \in {k \in ScriptKinds : k.content = None},
        i \in 1..(Len(doc) + 1) : InsertScript(kind, i)
  \/ \E n \in DOMAIN nodes, i \in 1..(Len(doc) + 1) : MoveScript(n, i)

SpecMoving == InitObserving /\ [][NextMoving]_vars

\* a StorageBlocker built with any caller pattern list, never started
InitCategorize ==
  /\ IdleScript
  /\ IdleClient
  /\ sbActive = FALSE
  /\ sbConsent = DefaultConsent
  /\ sbQueue = <<>>
  /\ sbOrig = [st \in StorageTypes |-> "null"]
  /\ sbConfig \in [queueOperations : {TRUE}, maxQueueSize : {MaxQueueSize},
                    patterns : CallerPatternLists]
  /\ patched = [st \in StorageTypes |-> FALSE]
  /\ store = [st \in StorageTypes |-> EmptyStorage]
  /\ sbEv = [op |-> "new", call |-> NoCall, under |-> <<>>, n |-> 0]

NextCategorize ==
  \E key \in CategorizeKeys : CategorizeKey(key)

SpecCategorize == InitCategorize /\ [][NextCategorize]_vars

\* a StorageBlocker built with any queue bound from 0 up, queueing enabled
InitQueue ==
  /\ IdleScript
  /\ IdleClient
  /\ sbActive = FALSE
  /\ sbConsent \in ConsentCategories
  /\ sbQueue = <<>>
  /\ sbOrig = [st \in StorageTypes |-> "null"]
  /\ sbConfig \in [queueOperations : {TRUE}, maxQueueSize : 0..MaxQueueSize,
                    patterns : {configPatterns}]
  /\ patched = [st \in StorageTypes |-> FALSE]
  /\ store = [st \in StorageTypes |-> EmptyStorage]
  /\ sbEv = [op |-> "new", call |-> NoCall, under |-> <<>>, n |-> 0]

SpecQueue == InitQueue /\ [][NextStorage]_vars

----------------------------------------------------------------------------
\* The persistence functions called directly (storage.test.ts calls them
\* this way), over any content of the two backends

\* the records handed to saveConsentToStorage
SavedRecords ==
  [visitorId : {QVisitor}, sessionId : {QSession, QVisitor},
   categories : ConsentCategories, timestamp : {QStamp, Undefined}]

\* options.maxAge handed to saveConsentToStorage
SavedMaxAges == {CookieMaxAge, 0}

\* a stored object that lacks required members
PartialRecord == <<"{", "visitorId", QVisitor, "}">>

\* a stored record whose analytics flag is null
NullFlagRecord ==
  <<"{", "visitorId", QVisitor, "sessionId", QSession, "categories",
    "{", "necessary", "true", "analytics", "null", "marketing", "false",
    "preferences", "false", "}", "}">>

\* what localStorage may hold under the consent key when the page loads
LocalContents ==
  {Absent, <<>>, Throws,
   ValidStored([DefaultConsent EXCEPT !.marketing = TRUE]),
   StoredNecessaryFalse, PartialRecord, NullFlagRecord,
   <<"null">>, <<"{", "visitorId">>}

\* what the consent cookie may hold when the page loads: the same texts
\* percent-encoded, a malformed escape, and a jar that throws
CookieContents ==
  {Absent, <<>>, Throws, <<"%">>, MalformedCookie, <<"null">>,
   encodeURIComponent(ValidStored([DefaultConsent EXCEPT !.analytics = TRUE])),
   encodeURIComponent(StoredNecessaryFalse),
   encodeURIComponent(PartialRecord),
   encodeURIComponent(NullFlagRecord)}

\* one call of a persistence function as a test would observe it
PersistEvent(op, record, maxAge, result, raised) ==
  [op |-> op, record |-> record, maxAge |-> maxAge, result |-> result,
   raised |-> raised]

\* getConsentFromStorage()
LoadConsent ==
  /\ cpEv' = PersistEvent("load", NotFound.data, 0,
                          getConsentFromStorage(cookie, store["localStorage"][KeyConsent]),
                          getConsentFromStorageThrows(cookie, store["localStorage"][KeyConsent]))
  /\ UNCHANGED <<reports, events, idCookie, cpIds, cpInstance, cpConfig, cpConsentState, cpGcm, cpBlocker, cookie,
                 held, pending, gtagAvailable, dataLayer>>
  /\ UNCHANGED <<heap, abVars, sbVars>>

\* saveConsentToStorage(record, {maxAge})
SaveConsent(record, maxAge) ==
  LET saved == saveConsentToStorage(record, maxAge)
  IN /\ cookie' = saved.cookie
     /\ store' = saved.store
     /\ cpEv' = PersistEvent("save", record, maxAge, NotFound, FALSE)
     /\ UNCHANGED <<reports, events, idCookie, cpIds, cpInstance, cpConfig, cpConsentState, cpGcm, cpBlocker,
                    held, pending, gtagAvailable, dataLayer>>
     /\ UNCHANGED <<heap, abVars>>
     /\ UNCHANGED <<sbActive, sbConsent, sbQueue, sbOrig, sbConfig, patched, sbEv>>

\* clearConsentFromStorage()
ClearConsent ==
  LET cleared == clearConsentFromStorage
  IN /\ cookie' = cleared.cookie
     /\ store' = cleared.store
     /\ cpEv' = PersistEvent("clear", NotFound.data, 0, NotFound, FALSE)
     /\ UNCHANGED <<reports, events, idCookie, cpIds, cpInstance, cpConfig, cpConsentState, cpGcm, cpBlocker,
                    held, pending, gtagAvailable, dataLayer>>
     /\ UNCHANGED <<heap, abVars>>
     /\ UNCHANGED <<sbActive, sbConsent, sbQueue, sbOrig, sbConfig, patched, sbEv>>

\* a page with no SDK object, whose two backends hold anything
InitPersist ==
  /\ IdleScript
  /\ sbActive = FALSE
  /\ sbConsent = DefaultConsent
  /\ sbQueue = <<>>
  /\ sbOrig = [st \in StorageTypes |-> "null"]
  /\ sbConfig = [queueOperations |-> TRUE, maxQueueSize |-> MaxQueueSize,
                 patterns |-> configPatterns]
  /\ patched = [st \in StorageTypes |-> FALSE]
  /\ \E local \in LocalContents :
       store = [st \in StorageTypes |->
                  IF st = "localStorage"
                    THEN [EmptyStorage EXCEPT ![KeyConsent] = local]
                    ELSE EmptyStorage]
  /\ sbEv = [op |-> "new", call |-> NoCall, under |-> <<>>, n |-> 0]
  /\ cpInstance = FALSE
  /\ cpConfig = [enableGoogleConsentMode |-> FALSE, autoBlock |-> FALSE,
                 cookieMaxAge |-> CookieMaxAge]
  /\ cpConsentState = 0
  /\ cpGcm = FALSE
  /\ cpBlocker = FALSE
  /\ cookie \in CookieContents
  /\ idCookie = Absent
  /\ cpIds = NoIds
  /\ events = NoHandlers
  /\ held = {}
  /\ pending = <<>>
  /\ reports = <<>>
  /\ gtagAvailable = FALSE
  /\ dataLayer = <<>>
  /\ cpEv = PersistEvent("none", NotFound.data, 0, NotFound, FALSE)

NextPersist ==
  \/ LoadConsent
  \/ \E record \in SavedRecords, maxAge \in SavedMaxAges : SaveConsent(record, maxAge)
  \/ ClearConsent

SpecPersist == InitPersist /\ [][NextPersist]_vars

----------------------------------------------------------------------------
\* Helpers of the properties

Range(seq) == {seq[i] : i \in 1..Len(seq)}

\* the call a queued operation stands for
CallOf(op) == UnderCall(op.type, op.storageType, op.key, op.value)

MapCalls(ops) == [i \in 1..Len(ops) |-> CallOf(ops[i])]

\* does the categories record grant the category (necessary needs no grant)
Grants(consent, category) == category = "necessary" \/ consent[category]

----------------------------------------------------------------------------
\* Properties of the StorageBlocker (SpecStorage)

\* what getConsentFromStorage would return now
Loaded == getConsentFromStorage(cookie, store["localStorage"][KeyConsent])

\* this step is the synchronous part of a setConsent call (setConsent itself,
\* or the one acceptAll / rejectAll make)
SetConsentStep == Len(pending') = Len(pending) + 1

\* this step is a remote report settling
ReportStep == Len(pending') + 1 = Len(pending)

\* C1: once the orchestrator exists - built from whatever was persisted, and
\* after any setConsent (necessary:false included), acceptAll, rejectAll or
\* resetConsent - its current consent state has necessary = true.
C1_NecessaryAlwaysTrue ==
  cpInstance => heap[cpConsentState].necessary = TRUE

\* setConsent was just called with necessary:false
C1_Witness ==
  /\ cpInstance
  /\ cpEv.op = "setConsent"
  /\ cpEv.partial.necessary = "false"
  /\ heap[cpConsentState].analytics = TRUE

\* C2: while the engine is active, an intercepted setItem / removeItem on key
\* k reaches the underlying store, at once, exactly when k is allow-listed or
\* the engine's consent grants the category of k (or that category is
\* necessary); otherwise the underlying stores are left unchanged.
C2_GatedWrite ==
  [][(sbEv'.op \in {"setItem", "removeItem"} /\ sbEv'.n = sbEv.n + 1 /\ sbActive)
       => LET call == sbEv'.call
              granted == \/ startsWith(call.key, <<"c","o","o","k","i","e","p","o","t","_">>)
                         \/ Grants(sbConsent, categorizeKey(call.key))
          IN IF granted
               THEN sbEv'.under = <<call>> /\ store' = applyCall(store, call)
               ELSE sbEv'.under = <<>> /\ store' = store]_vars

\* C2 witness: an active engine has just suppressed a write to a key whose
\* category is not granted, and the store does not hold the key
C2_Witness ==
  /\ sbActive
  /\ sbEv.op = "setItem"
  /\ sbEv.under = <<>>
  /\ ~Grants(sbConsent, categorizeKey(sbEv.call.key))
  /\ store[sbEv.call.storageType][sbEv.call.key] = Absent

\* C4 (as claimed): in every engine state updateConsent(newState) executes on
\* the underlying stores, in enqueue order, every queued operation whose
\* category newState satisfies, and removes it from the queue.
C4_ReplayExecutesSatisfied ==
  [][sbEv'.op = "updateConsent"
       => LET satisfied == SelectSeq(sbQueue, LAMBDA op : Grants(sbConsent', op.category))
          IN /\ sbEv'.under = MapCalls(satisfied)
             /\ store' = applyCalls(store, MapCalls(satisfied), 1)
             /\ \A i \in 1..Len(sbQueue') : ~Grants(sbConsent', sbQueue'[i].category)]_vars

----------------------------------------------------------------------------
\* Properties of the ScriptAutoBlocker (SpecScript)

\* the category the pattern table gives a script element, None when no
\* pattern matches its src or its inline content
CategoryOf(script) == matchScriptToCategory(script)

\* C3: a script element the engine handles while the consent for its matched
\* category is not granted becomes non-executing (type text/plain), loses
\* its src, carries the blocked marker naming the category, and has exactly
\* one BlockedScript record, which keeps the original src and inline content.
C3_BlockedScriptNeutralised ==
  [][(abEv'.op = "observe" /\ mutQ # <<>>)
       => \A n \in Range(mutQ) :
            (/\ ~nodes[n].processed
             /\ CategoryOf(nodes[n]) # None
             /\ ~heap[abConsent][CategoryOf(nodes[n])[1]])
            => /\ nodes'[n].type = "text/plain"
               /\ nodes'[n].src = None
               /\ nodes'[n].blocked = CategoryOf(nodes[n])
               /\ Cardinality({i \in 1..Len(abBlocked') : abBlocked'[i].element = n}) = 1
               /\ \A i \in 1..Len(abBlocked') :
                    abBlocked'[i].element = n
                    => /\ abBlocked'[i].category = CategoryOf(nodes[n])[1]
                       /\ abBlocked'[i].src = nodes[n].src
                       /\ abBlocked'[i].content = nodes[n].content
                       /\ (abBlocked'[i].src # None \/ abBlocked'[i].content # None)]_vars

\* C3 witness: the observer has just neutralised a script that had a src
C3_Witness ==
  /\ abEv.op = "observe"
  /\ \E i \in 1..Len(abBlocked) :
       /\ abBlocked[i].src # None
       /\ nodes[abBlocked[i].element].type = "text/plain"
       /\ nodes[abBlocked[i].element].src = None
       /\ ~heap[abConsent][abBlocked[i].category]

\* the element that replaces a blocked script: executable, with the
\* original src or, when there was none, the original inline content
IsReactivation(script, b) ==
  /\ script.type = "text/javascript"
  /\ script.blocked = None
  /\ IF b.src # None THEN script.src = b.src
                     ELSE script.src = None /\ script.content = b.content

\* the records of categories updateConsent does not newly grant stay
\* pending, in order, and their elements stay as they are
OthersStayPending(newly) ==
  /\ abBlocked' = SelectSeq(abBlocked, LAMBDA b : b.category \notin newly)
  /\ \A i \in 1..Len(abBlocked) :
       abBlocked[i].category \notin newly
       => /\ nodes'[abBlocked[i].element] = nodes[abBlocked[i].element]
          /\ nodes'[abBlocked[i].element].type = "text/plain"
          /\ \A j \in 1..Len(doc) :
               doc[j] = abBlocked[i].element => doc'[j] = doc[j]

C6_SetConsentReachesAllEngines ==
  [][(SetConsentStep /\ sbActive)
       => /\ sbConsent' = heap'[cpConsentState']
          /\ \A i \in 1..Len(sbQueue') :
               ~Grants(heap'[cpConsentState'], sbQueue'[i].category)
          /\ cpBlocker => heap'[abConsent'] = heap'[cpConsentState']
          /\ (cpGcm /\ gtagAvailable)
               => cpEv'.gtag = <<GtagSignal("update",
                                   mapConsentToGoogle(heap'[cpConsentState']))>>]_vars

\* C7: however the remote report ends, setConsent does not reject, and the
\* in-memory state and the persisted record stay as the call wrote them
\* before the report: the call stores the merged state in both, and the
\* settling of the report changes neither.
C7_ReportNeverUndoes ==
  [][/\ SetConsentStep
          => /\ heap'[cpConsentState'] = mergeConsent(cpEv'.partial, heap[cpConsentState])
             /\ LET loaded == getConsentFromStorage(cookie', store'["localStorage"][KeyConsent])
                IN loaded.found /\ loaded.data.categories = heap'[cpConsentState']
     /\ ReportStep
          => /\ ~cpEv'.rejected
             /\ cpConsentState' = cpConsentState
             /\ heap'[cpConsentState'] = heap[cpConsentState]
             /\ cookie' = cookie
             /\ store' = store]_vars

\* a report has just timed out and the granted state is still there
C7_Witness ==
  /\ cpEv.op = "settled"
  /\ cpEv.outcome = "timeout"
  /\ heap[cpConsentState].analytics = TRUE
  /\ Loaded.found
  /\ Loaded.data.categories = heap[cpConsentState]

\* C8: setConsent(p) sets each of analytics, marketing and preferences to the
\* value p gives it, and leaves it as it was when p omits it.
C8_MergeProvidedOnly ==
  [][SetConsentStep
       => \A m \in {"analytics", "marketing", "preferences"} :
            heap'[cpConsentState'][m] =
              IF cpEv'.partial[m] = "absent" THEN heap[cpConsentState][m]
              ELSE cpEv'.partial[m] = "true"]_vars

\* a call gave analytics only, and marketing kept the grant it had
C8_Witness ==
  /\ cpEv.op = "setConsent"
  /\ cpEv.partial.analytics = "false"
  /\ cpEv.partial.marketing = "absent"
  /\ cpEv.partial.preferences = "absent"
  /\ heap[cpConsentState].marketing = TRUE
  /\ heap[cpConsentState].analytics = FALSE

\* C9: getConsent() returns a new object, equal to the internal state and
\* distinct from it and from every object returned before; writing to a
\* returned object changes that object only, so neither the internal state
\* nor what a later getConsent() returns depends on it.
C9_IndependentCopies ==
  [][/\ cpEv'.op = "getConsent"
          => \E r \in held' :
               /\ held' = held \cup {r}
               /\ r \notin held
               /\ r \notin DOMAIN heap
               /\ r # cpConsentState'
               /\ heap'[r] = heap'[cpConsentState']
               /\ heap'[cpConsentState'] = heap[cpConsentState]
     /\ cpEv'.op = "mutate"
          => /\ cpConsentState' = cpConsentState
             /\ heap'[cpConsentState'] = heap[cpConsentState]
             /\ \E r \in held :
                  \A o \in DOMAIN heap : o # r => heap'[o] = heap[o]]_vars

\* page code holds two results and has written to one of them
C9_Witness ==
  /\ Cardinality(held) = 2
  /\ cpEv.op = "mutate"
  /\ \E r \in held : heap[r].necessary = FALSE
  /\ \E r \in held : heap[r] = heap[cpConsentState]

\* C10: after resetConsent neither the cookie nor localStorage holds a
\* consent record, loading finds nothing, and the in-memory state is the
\* default one; a second resetConsent right after leaves all of it as it is.
C10_ResetClears ==
  [][cpEv'.op = "resetConsent"
       => /\ cookie' = Absent
          /\ store'["localStorage"][KeyConsent] = Absent
          /\ ~getConsentFromStorage(cookie', store'["localStorage"][KeyConsent]).found
          /\ heap'[cpConsentState'] = DefaultConsent
          /\ cpEv.op = "resetConsent"
               => /\ cookie' = cookie
                  /\ store' = store
                  /\ heap'[cpConsentState'] = heap[cpConsentState]]_vars

\* resetConsent has just run on an orchestrator
C10_Witness ==
  /\ cpInstance
  /\ cpEv.op = "resetConsent"
  /\ cookie = Absent
  /\ store["localStorage"][KeyConsent] = Absent
  /\ heap[cpConsentState] = DefaultConsent

\* C11: once an instance exists, a later init call, whatever configuration it
\* is given, returns the existing instance: the instance, its configuration,
\* its consent state object and value, its engines, the DOM observer and the
\* storage overrides are all as they were.
C11_InitReturnsExisting ==
  [][(cpInstance /\ cpEv'.op = "init")
       => /\ cpInstance'
          /\ cpEv'.outcome \in {"existing", "existing, other config"}
          /\ cpConfig' = cpConfig
          /\ cpConsentState' = cpConsentState
          /\ heap' = heap
          /\ UNCHANGED <<cpGcm, cpBlocker, cookie, store>>
          /\ UNCHANGED <<abConsent, abEnabled, abObserver, abConnected, abBlocked, nodes, doc, mutQ>>
          /\ UNCHANGED <<sbActive, sbOrig, patched, sbQueue, sbConsent>>]_vars

\* init was called again with another configuration on an instance whose
\* consent state is no longer the default
C11_Witness ==
  /\ cpInstance
  /\ cpEv.op = "init"
  /\ cpEv.outcome = "existing, other config"
  /\ heap[cpConsentState].analytics = TRUE

\* the combined table the claim describes: built-ins in declaration order,
\* then the caller's patterns
C12_Table == defaultStoragePatterns \o sbConfig.patterns

\* C12: categorizeKey returns the category of the first pattern that matches
\* the key, built-ins first in declaration order and caller patterns after
\* them (a string pattern matches a key equal to it or starting with it, a
\* regular expression one it tests true on), and marketing when none matches.
C12_FirstMatchWins ==
  sbEv.op = "categorizeKey"
    => LET key == sbEv.call.key
           hits == {i \in 1..Len(C12_Table) :
                      IF C12_Table[i].kind = "string"
                        THEN key = C12_Table[i].text \/ startsWith(key, C12_Table[i].text)
                        ELSE regexTest(C12_Table[i], key)}
       IN IF hits = {} THEN sbEv.result = "marketing"
          ELSE \E i \in hits :
                 /\ \A j \in hits : i <= j
                 /\ sbEv.result = C12_Table[i].category

\* a key that a built-in and a caller pattern both match got the built-in's
\* category
C12_Witness ==
  /\ sbEv.op = "categorizeKey"
  /\ sbEv.call.key = KeyGa
  /\ Len(sbConfig.patterns) = 2
  /\ sbConfig.patterns[1].text = <<"_","g","a">>
  /\ sbConfig.patterns[1].category = "necessary"
  /\ sbEv.result = "analytics"

\* no script pattern matches the element's src or its inline content
C13_MatchesNothing(script) ==
  \A i \in 1..Len(scriptPatterns) :
    /\ script.src # None
         => ~includes(toLowerCase(script.src), toLowerCase(scriptPatterns[i].pattern))
    /\ script.content # None
         => ~includes(toLowerCase(script.content), toLowerCase(scriptPatterns[i].pattern))

\* C13: a script element whose src and inline content match no pattern is
\* never neutralised and never recorded as blocked, whatever the consent
\* state: no step changes it except that the observer marks it processed
\* (only steps that touch an element or the records, and observer steps,
\* need looking at).
C13_UnmatchedLeftAlone ==
  [][\A n \in DOMAIN nodes :
       (/\ nodes[n].blocked = None
        /\ nodes[n].type # "text/plain"
        /\ nodes'[n] # nodes[n] \/ abBlocked' # abBlocked \/ abEv'.op = "observe"
        /\ C13_MatchesNothing(nodes[n]))
       => /\ nodes'[n] \in {nodes[n], [nodes[n] EXCEPT !.processed = TRUE]}
          /\ \A i \in 1..Len(abBlocked') : abBlocked'[i].element # n
          /\ (abEv'.op = "observe" /\ n \in Range(mutQ)) => nodes'[n].processed]_vars

\* with no category granted, the observer has handled a script that matches
\* nothing and left it executable
C13_Witness ==
  /\ abEv.op = "observe"
  /\ heap[abConsent] = DefaultConsent
  /\ \E n \in DOMAIN nodes :
       /\ nodes[n].src = SrcOwn
       /\ nodes[n].content = None
       /\ nodes[n].processed
       /\ nodes[n].type = ""
       /\ nodes[n].blocked = None

\* C14: while the engine is active, clear() on either backend empties that
\* backend exactly when marketing consent is granted, whatever the store
\* holds and whatever else is granted; without marketing consent both
\* stores stay as they are and no underlying call is made.
C14_ClearNeedsMarketing ==
  [][(sbEv'.op = "clear" /\ sbEv'.n = sbEv.n + 1 /\ sbActive)
       => LET st == sbEv'.call.storageType
          IN IF sbConsent.marketing
               THEN /\ store' = [store EXCEPT ![st] = [k \in DOMAIN store[st] |-> Absent]]
                    /\ sbEv'.under = <<sbEv'.call>>
               ELSE /\ store' = store
                    /\ sbEv'.under = <<>>]_vars

\* with analytics and preferences granted but not marketing, clear() has
\* just been suppressed on a store holding an allow-listed key and an
\* analytics key
C14_Witness ==
  /\ sbActive
  /\ sbEv.op = "clear"
  /\ sbEv.under = <<>>
  /\ sbConsent.analytics /\ sbConsent.preferences /\ ~sbConsent.marketing
  /\ store[sbEv.call.storageType][KeyConsent] # Absent
  /\ store[sbEv.call.storageType][KeyGa] # Absent

\* the operation an intercepted call is queued as
C15_OpOf(call) ==
  [type |-> call.type, storageType |-> call.storageType, key |-> call.key,
   value |-> call.value,
   category |-> IF call.type = "clear" THEN "marketing" ELSE categorizeKey(call.key)]

\* C15 (as claimed): for any configured bound N the queue never holds more
\* than N operations, and each blocked operation leaves in it the N most
\* recently blocked ones (all of them while there are fewer), oldest first.
C15_BoundedDropOldest ==
  /\ [](Len(sbQueue) <= sbConfig.maxQueueSize)
  /\ [][(sbEv'.n = sbEv.n + 1 /\ sbEv'.under = <<>> /\ patched[sbEv'.call.storageType])
          => LET all == Append(sbQueue, C15_OpOf(sbEv'.call))
                 keep == IF Len(all) <= sbConfig.maxQueueSize
                           THEN Len(all) ELSE sbConfig.maxQueueSize
             IN sbQueue' = SubSeq(all, Len(all) - keep + 1, Len(all))]_vars

\* C16: updateConsent(newState) leaves in the queue exactly the queued
\* operations whose category newState does not satisfy, in the order they
\* had before the call, and makes no underlying call for any of them (their
\* keys keep the stored values they had unless a satisfied operation of the
\* same call cleared the store).
C16_UnsatisfiedStayQueued ==
  [][sbEv'.op = "updateConsent"
       => LET unsatisfied == SelectSeq(sbQueue, LAMBDA op : ~Grants(sbConsent', op.category))
          IN /\ sbQueue' = unsatisfied
             /\ \A i \in 1..Len(unsatisfied) :
                  CallOf(unsatisfied[i]) \notin Range(sbEv'.under)
             /\ \A i \in 1..Len(unsatisfied) :
                  (unsatisfied[i].type = "setItem"
                     /\ \A j \in 1..Len(sbEv'.under) : sbEv'.under[j].type # "clear")
                  => store'[unsatisfied[i].storageType][unsatisfied[i].key]
                       = store[unsatisfied[i].storageType][unsatisfied[i].key]]_vars

\* updateConsent has just returned with two different operations still
\* queued, neither category being granted by the new state
C16_Witness ==
  /\ sbEv.op = "updateConsent"
  /\ Len(sbQueue) = 2
  /\ sbQueue[1] # sbQueue[2]
  /\ \A i \in 1..2 : ~Grants(sbConsent, sbQueue[i].category)

\* the engine's own fields and the page's stores
C17_Engine == <<sbActive, sbConsent, sbQueue, sbOrig, sbConfig, patched, store>>

\* C17: whenever the engine is inactive (before the first start() and after
\* any stop(), however many start() calls came before it) no backend is
\* intercepted, and every setItem, removeItem and clear the page makes goes
\* to the underlying store at once whatever the consent and leaves the queue
\* alone; stop() always leaves the engine inactive; start() on an active
\* engine and stop() on an inactive one change nothing.
C17_StopRestores ==
  /\ [](~sbActive => \A st \in StorageTypes : ~patched[st])
  /\ [](sbEv.op = "stop" => ~sbActive)
  /\ [][(~sbActive /\ sbEv'.n = sbEv.n + 1)
          => /\ sbEv'.under = <<sbEv'.call>>
             /\ store' = applyCall(store, sbEv'.call)
             /\ sbQueue' = sbQueue]_vars
  /\ [][((sbEv'.op = "start" /\ sbActive) \/ (sbEv'.op = "stop" /\ ~sbActive))
          => UNCHANGED C17_Engine]_vars

\* after start(), a blocked operation and stop(), a write of an analytics
\* key without analytics consent has just landed in the store
C17_Witness ==
  /\ ~sbActive
  /\ sbQueue # <<>>
  /\ sbEv.op = "setItem"
  /\ sbEv.call.key = KeyGa
  /\ ~sbConsent.analytics
  /\ sbEv.under = <<sbEv.call>>
  /\ store[sbEv.call.storageType][KeyGa] = sbEv.call.value

----------------------------------------------------------------------------
\* Properties of the persistence functions (SpecPersist)

\* what localStorage holds under the consent key
C18_Local == store["localStorage"][KeyConsent]

\* is the text a structurally valid record (it parses and passes the schema)
C18_Valid(text) ==
  /\ text \notin {Absent, Throws}
  /\ ~JSONparse(text).threw
  /\ ConsentStateSchemaSuccess(JSONparse(text))

\* is the cookie's entry a structurally valid record
C18_CookieValid ==
  /\ cookie \notin {Absent, Throws}
  /\ ~decodeURIComponent(cookie).threw
  /\ C18_Valid(decodeURIComponent(cookie).value)

\* C18 (as claimed): with both backends readable, load() returns the
\* cookie's record whenever that one is structurally valid, and otherwise
\* (cookie absent, empty, not decodable, not parseable, or failing the
\* schema) returns localStorage's record whenever that one is valid.
C18_FallbackOnAnyInvalid ==
  (cpEv.op = "load" /\ cookie # Throws /\ C18_Local # Throws)
    => IF C18_CookieValid
         THEN /\ cpEv.result.found
              /\ cpEv.result.data
                   = ConsentStateSchemaData(JSONparse(decodeURIComponent(cookie).value))
         ELSE C18_Valid(C18_Local)
                => /\ cpEv.result.found
                   /\ cpEv.result.data = ConsentStateSchemaData(JSONparse(C18_Local))

\* does the text hold, member by member, the record: non-empty string
\* identifiers, categories with necessary true and a real boolean for each
\* other flag, and a string timestamp or none
C19_Holds(text, data) ==
  /\ text \notin {Absent, Throws}
  /\ ~JSONparse(text).threw
  /\ JSONparse(text).isObject
  /\ LET members == JSONparse(text).members
         cats == getMember(members, "categories")
     IN /\ getMember(members, "visitorId").val = data.visitorId
        /\ getMember(members, "sessionId").val = data.sessionId
        /\ getMember(members, "timestamp").val = data.timestamp
        /\ cats.val = "<object>"
        /\ getMember(cats.obj, "necessary").val = "true"
        /\ \A c \in {"analytics", "marketing", "preferences"} :
             getMember(cats.obj, c).val = boolToken(data.categories[c])

\* C19: whatever the two backends hold, and when either throws on access,
\* load() does not raise, and it returns either absent or a record with
\* non-empty string identifiers, necessary true, boolean flags and a string
\* or missing timestamp, every member of which is what one of the two stores
\* holds.
C19_LoadNeverRaisesNorPartial ==
  cpEv.op = "load"
    => /\ ~cpEv.raised
       /\ IF cpEv.result.found
            THEN /\ cpEv.result.data.visitorId \in StringTokens \ {QEmpty}
                 /\ cpEv.result.data.sessionId \in StringTokens \ {QEmpty}
                 /\ cpEv.result.data.categories \in ConsentCategories
                 /\ cpEv.result.data.timestamp \in StringTokens \cup {Undefined}
                 /\ \/ /\ cookie \notin {Absent, Throws}
                       /\ ~decodeURIComponent(cookie).threw
                       /\ C19_Holds(decodeURIComponent(cookie).value, cpEv.result.data)
                    \/ C19_Holds(C18_Local, cpEv.result.data)
            ELSE cpEv.result = NotFound

\* load() has just returned absent, without raising, where the cookie holds
\* an object lacking required members and localStorage throws on access
C19_Witness ==
  /\ cpEv.op = "load"
  /\ cookie = encodeURIComponent(PartialRecord)
  /\ C18_Local = Throws
  /\ cpEv.result = NotFound
  /\ ~cpEv.raised

\* C20: with neither backend throwing, a load() that directly follows
\* save(r) returns a record with r's category flags, visitor identifier and
\* session identifier, whatever the stores held before and whatever Max-Age
\* the save was given; a load() that directly follows clear() returns absent.
C20_SaveLoadRoundTrip ==
  [][(cpEv'.op = "load" /\ cookie # Throws /\ C18_Local # Throws)
       => /\ cpEv.op = "save"
               => /\ cpEv'.result.found
                  /\ cpEv'.result.data.categories = cpEv.record.categories
                  /\ cpEv'.result.data.visitorId = cpEv.record.visitorId
                  /\ cpEv'.result.data.sessionId = cpEv.record.sessionId
          /\ cpEv.op = "clear" => cpEv'.result = NotFound]_vars

\* load() has just returned a record only a save could have stored: its
\* session identifier and its granted preferences are in no initial content
C20_Witness ==
  /\ cpEv.op = "load"
  /\ cpEv.result.found
  /\ cpEv.result.data.sessionId = QVisitor
  /\ cpEv.result.data.categories.preferences
  /\ cpEv.result.data.categories.analytics
  /\ cookie # Throws
  /\ C18_Local # Throws

----------------------------------------------------------------------------
\* Properties of the orchestrator's construction and signalling (Spec)

\* C21: right after the constructor ran, the orchestrator's consent state is
\* the categories of the record load() yields from the two stores when it
\* yields one, and {necessary: true, all others false} when it yields absent
\* (nothing stored, or only content that fails validation).
C21_StartsFromLoadedOrDefault ==
  (cpEv.op = "init" /\ cpEv.outcome = "none")
    => /\ cpInstance
       /\ IF Loaded.found
            THEN heap[cpConsentState] = Loaded.data.categories
            ELSE heap[cpConsentState] = DefaultConsent

\* the constructor has just run over a cookie that fails validation and a
\* valid localStorage record granting marketing and preferences, and the
\* orchestrator starts with those grants
C21_Witness ==
  /\ cpEv.op = "init"
  /\ cpEv.outcome = "none"
  /\ cookie = encodeURIComponent(StoredNecessaryFalse)
  /\ Loaded.found
  /\ heap[cpConsentState] =
       [DefaultConsent EXCEPT !.marketing = TRUE, !.preferences = TRUE]

\* the constructor has just run where only invalid content is stored, and
\* the orchestrator starts with the defaults
C21_WitnessDefault ==
  /\ cpEv.op = "init"
  /\ cpEv.outcome = "none"
  /\ C18_Local = StoredNecessaryFalse
  /\ heap[cpConsentState] = DefaultConsent

\* the orchestrator operations that change the consent state
C22_ChangingOps == {"setConsent", "acceptAll", "rejectAll", "resetConsent"}

\* C22 (as claimed): with the signal adapter enabled and the signalling
\* function available, every setConsent, acceptAll, rejectAll or resetConsent
\* that changes the orchestrator's consent state makes one "update" signal
\* carrying the new state.
C22_EveryChangeSignalled ==
  [][(/\ cpInstance
      /\ cpGcm
      /\ gtagAvailable
      /\ cpEv'.op \in C22_ChangingOps
      /\ heap'[cpConsentState'] # heap[cpConsentState])
       => cpEv'.gtag = <<GtagSignal("update", mapConsentToGoogle(heap'[cpConsentState']))>>]_vars

\* how many "default" commands the data layer holds
C23_Defaults == Cardinality({i \in 1..Len(dataLayer) : dataLayer[i] = "default"})

\* C23 (as claimed): in every run, whether window.gtag is defined before or
\* after the orchestrator is constructed, the first consent command the
\* signalling function receives is the "default" one (no "update" precedes
\* it), and it receives no second "default".
C23_DefaultOnceBeforeUpdates ==
  /\ dataLayer # <<>> => dataLayer[1] = "default"
  /\ C23_Defaults <= 1

----------------------------------------------------------------------------
\* Properties of the identifiers (SpecSession, SpecVisitor)

\* C24 (as claimed): once a browsing session has ended, neither the consent
\* cookie, nor the visitor-id cookie, nor any localStorage entry mentions
\* the session identifier of the session that ended.
C24_SessionIdNotPersisted ==
  cpEv.op = "sessionEnds"
    => /\ cpEv.ended \notin idsInText(cookie)
       /\ cpEv.ended \notin idsInText(idCookie)
       /\ \A k \in DOMAIN store["localStorage"] :
            cpEv.ended \notin idsInText(store["localStorage"][k])

\* are both visitor-id backends available (neither throws on access)
C25_Available ==
  /\ idCookie # Throws
  /\ store["localStorage"][KeyVisitorId] # Throws

\* C25 (as claimed): with both backends available, every getOrCreateVisitorId call
\* returns an identifier in the canonical format (never a stored value that
\* is not), leaves that identifier in localStorage and in the cookie, and
\* returns the identifier the previous call returned when at most one of
\* the two backends was cleared or overwritten with a non-canonical value
\* since.
C25_VisitorIdStable ==
  [][(cpEv'.op = "getOrCreateVisitorId" /\ C25_Available)
       => /\ cpEv'.id \in Uuids
          /\ store'["localStorage"][KeyVisitorId] = <<cpEv'.id>>
          /\ idCookie' = <<cpEv'.id>>
          /\ (cpEv.id \in Uuids /\ Cardinality(cpEv.tampered) <= 1)
               => cpEv'.id = cpEv.id]_vars

\* how many times a handler was invoked in the step just taken
C26_Times(handler) ==
  Cardinality({i \in 1..Len(cpEv'.invoked) : cpEv'.invoked[i].handler = handler})

C26_Registered(event) == {events[event][i] : i \in 1..Len(events[event])}

\* the handlers another handler takes out of the set before their turn
C26_RemovedBeforeTurn(event) ==
  {events[event][j] : j \in
     {j \in 1..Len(events[event]) :
        \E i \in 1..(j - 1) : events[event][j] \in removedBy(events[event][i])}}

C27_Persisted(view) == getConsentFromStorage(view.cookie, view.local)

\* C27: each setConsent call emits consent:change exactly once, in the step
\* that updates the state and puts the remote report in flight; when the
\* listener runs, getConsent() equals the payload, the merged record is
\* already persisted, the script engine and the signal adapter already have
\* the new state; the completion of the report emits no consent:change
C27_ChangeEmittedOnceAfterUpdates ==
  [][/\ SetConsentStep =>
          /\ Len(cpEv'.emitted) = 1
          /\ cpEv'.emitted[1] = Emitted("consent:change", cpConsentState')
          /\ cpEv'.view.consent = heap'[cpConsentState']
          /\ LET loaded == C27_Persisted(cpEv'.view)
             IN loaded.found /\ loaded.data.categories = heap'[cpConsentState']
          /\ cpBlocker => cpEv'.view.engine = heap'[cpConsentState']
          /\ (cpGcm /\ gtagAvailable) =>
               cpEv'.view.gtag =
                 <<GtagSignal("update", mapConsentToGoogle(heap'[cpConsentState']))>>
     /\ cpEv'.op = "settled" =>
          \A i \in 1..Len(cpEv'.emitted) : cpEv'.emitted[i].event # "consent:change"]_vars

\* a setConsent that granted analytics with both engines on, its report in flight
C27_Witness ==
  /\ cpEv.op = "setConsent"
  /\ cpBlocker /\ cpGcm /\ gtagAvailable
  /\ Len(pending) = 1
  /\ cpEv.view.consent.analytics
  /\ cpEv.view.engine = cpEv.view.consent
  /\ cpEv.view.gtag # <<>>

\* the interaction-specific notifications
C28_BannerEvents == {"banner:accept_all", "banner:reject_all"}

\* C28 (as claimed): acceptAll and rejectAll emit their interaction-specific
\* notification in the step that makes the call, and the step in which the
\* remote report completes, fails or times out emits nothing and changes no
\* consent state
C28_NothingAfterReport ==
  [][/\ cpEv'.op \in {"acceptAll", "rejectAll"} =>
          \E i \in 1..Len(cpEv'.emitted) : cpEv'.emitted[i].event \in C28_BannerEvents
     /\ cpEv'.op = "settled" =>
          /\ cpEv'.emitted = <<>>
          /\ cpConsentState' = cpConsentState
          /\ cookie' = cookie]_vars

\* what a call's update makes of the state it finds
C29_Applied(partial, current) ==
  [m \in DOMAIN current |->
     IF m = "necessary" THEN TRUE
     ELSE IF partial[m] = "absent" THEN current[m]
     ELSE partial[m] = "true"]

\* C29: whatever reports are still pending, each setConsent, acceptAll and
\* rejectAll call turns the state it finds into that state with its update
\* applied and persists exactly that in the same step, each resetConsent
\* leaves the defaults and nothing persisted, and the completion of a report
\* changes neither the state nor what is persisted; so the final state is
\* the updates applied in invocation order
C29_CallsApplyInOrder ==
  [][/\ SetConsentStep =>
          /\ heap'[cpConsentState'] = C29_Applied(cpEv'.partial, heap[cpConsentState])
          /\ LET loaded == getConsentFromStorage(cookie', store'["localStorage"][KeyConsent])
             IN loaded.found /\ loaded.data.categories = heap'[cpConsentState']
          /\ pending' = Append(pending, cpEv'.op)
     /\ cpEv'.op = "resetConsent" =>
          /\ heap'[cpConsentState'] = DefaultConsent
          /\ ~getConsentFromStorage(cookie', store'["localStorage"][KeyConsent]).found
          /\ pending' = pending
     /\ ReportStep =>
          /\ heap'[cpConsentState'] = heap[cpConsentState]
          /\ cookie' = cookie
          /\ store' = store]_vars

\* setConsent({analytics: false}) was called while the report of acceptAll
\* was pending, and that report has since timed out
C29_Witness ==
  /\ cpEv.op = "settled"
  /\ cpEv.outcome = "timeout"
  /\ pending = <<"setConsent">>
  /\ cpEv.emitted # <<>>
  /\ cpEv.emitted[1].event = "banner:accept_all"
  /\ heap[cpConsentState] = [necessary |-> TRUE, analytics |-> FALSE,
                             marketing |-> TRUE, preferences |-> TRUE]
  /\ Loaded.data.categories = heap[cpConsentState]

\* C30 (as claimed): between orchestrator calls the script engine's consent
\* view equals the orchestrator's current consent state, also after
\* resetConsent, so a script of a category that getConsent() reports as not
\* granted is blocked by the engine
C30_EngineViewEqualsState ==
  (cpInstance /\ cpBlocker) =>
     /\ heap[abConsent] = heap[cpConsentState]
     /\ \A c \in ConsentCategory :
          ~heap[cpConsentState][c] => ~abHasConsent(heap[abConsent], c)

\* C31 (as claimed): while observation is active, every script element
\* inserted into the document, directly or inside an inserted subtree, is
\* eventually classified and marked processed; so once the observer has
\* delivered every mutation record, when nothing is left that could still
\* handle an element, every script element that was inserted is processed
C31_InsertedEventuallyHandled ==
  (abObserver /\ mutQ = <<>>) => \A n \in DOMAIN nodes : nodes[n].processed

\* C32 (as claimed): after stop() or disable() no blocked record is pending,
\* and an updateConsent call made while the engine is torn down replaces no
\* element
C32_TeardownDiscards ==
  [][/\ abEv'.op \in {"stop", "disable"} => abBlocked' = <<>>
     /\ (abEv'.op = "updateConsent" /\ ~abObserver) =>
          /\ doc' = doc
          /\ nodes' = nodes]_vars

\* C33: an updateConsent call whose new consent grants no category that the
\* previous one did not grant changes neither the document, nor any script
\* element, nor the pending blocked records: nothing is re-blocked
C33_NoGrantNoChange ==
  [][(/\ abEv'.op = "updateConsent"
      /\ \A c \in ConsentCategory : heap'[abConsent'][c] => heap[abConsent][c])
       => /\ doc' = doc
          /\ nodes' = nodes
          /\ abBlocked' = abBlocked
          /\ mutQ' = mutQ]_vars

\* updateConsent has just been called with a consent that grants nothing
\* but necessary, while a reactivated analytics script is in the document
\* and a marketing script is pending
C33_Witness ==
  /\ abEv.op = "updateConsent"
  /\ heap[abConsent] = DefaultConsent
  /\ \E n \in DOMAIN nodes :
       /\ InDoc(doc, n)
       /\ nodes[n].unblocked
       /\ nodes[n].src = SrcGa
       /\ nodes[n].type = "text/javascript"
  /\ \E i \in 1..Len(abBlocked) : abBlocked[i].category = "marketing"

\* the script elements among the undelivered added nodes
C34_Delivered == {mutQ[i] : i \in {i \in 1..Len(mutQ) : nodeName(mutQ[i]) = "SCRIPT"}}

\* C34: an observer callback leaves every delivered element marked
\* processed, changes no element that carried the marker before (replacement
\* elements created on reactivation included), adds pending records only for
\* elements that did not carry it, and leaves the pending set as it was when
\* every delivered element carried it; no element ever has two records
C34_ClassifiedOnce ==
  [][abEv'.op = "observe" =>
       /\ \A n \in C34_Delivered : nodes'[n].processed
       /\ \A n \in DOMAIN nodes : nodes[n].processed => nodes'[n] = nodes[n]
       /\ SubSeq(abBlocked', 1, Len(abBlocked)) = abBlocked
       /\ \A i \in (Len(abBlocked) + 1)..Len(abBlocked') :
            /\ abBlocked'[i].element \in C34_Delivered
            /\ ~nodes[abBlocked'[i].element].processed
       /\ \A i, j \in 1..Len(abBlocked') :
            abBlocked'[i].element = abBlocked'[j].element => i = j]_vars

\* the observer is always on here, so every record has been delivered once
\* the queue is empty: a callback has just run with analytics not granted,
\* the record of a replacement element has been delivered and the element
\* is still executable, and a neutralised element has exactly one record
C34_Witness ==
  /\ abEv.op = "observe"
  /\ mutQ = <<>>
  /\ ~heap[abConsent].analytics
  /\ \E n \in DOMAIN nodes :
       nodes[n].unblocked /\ nodes[n].src = SrcGa /\ nodes[n].type = "text/javascript"
  /\ \E n \in DOMAIN nodes :
       /\ nodes[n].type = "text/plain"
       /\ nodes[n].processed
       /\ Cardinality({i \in 1..Len(abBlocked) : abBlocked[i].element = n}) = 1

\* C35: start() on a disabled engine installs no observer; disable()
\* removes the observer and leaves the document and every neutralised
\* element as they are; after every step at most one observer is connected,
\* it is the one the engine holds, and none is connected while the engine
\* is disabled (the engine is constructed without an observer)
C35_ObservesOnlyWhileEnabled ==
  [][/\ (abEv'.op = "start" /\ ~abEnabled) =>
          /\ ~abObserver'
          /\ abConnected' = 0
     /\ abEv'.op = "disable" =>
          /\ ~abObserver'
          /\ abConnected' = 0
          /\ doc' = doc
          /\ nodes' = nodes
          /\ abBlocked' = abBlocked
     /\ abConnected' <= 1
     /\ abConnected' = IF abObserver' THEN 1 ELSE 0
     /\ abObserver' => abEnabled']_vars

\* disable() has just been called on an engine that had neutralised an
\* element, which is still in the document and still neutralised
C35_Witness ==
  /\ abEv.op = "disable"
  /\ ~abEnabled
  /\ ~abObserver
  /\ abConnected = 0
  /\ \E n \in DOMAIN nodes :
       /\ InDoc(doc, n)
       /\ nodes[n].type = "text/plain"
       /\ nodes[n].blocked # None
       /\ nodes[n].src = None

\* C36 (as claimed): every setConsent, acceptAll and rejectAll call
\* eventually completes, also when the collector never answers or never
\* finishes its response
C36_EveryCallCompletes == (pending # <<>>) ~> (pending = <<>>)

\* C37 (as claimed): a replay never overwrites the effect of an operation
\* the page issued after the replayed one was queued: when the page's last
\* call was a setItem that was let through, everything in the queue was
\* intercepted before it, and the updateConsent that replays the queue (a
\* queued clear() on a marketing grant in particular) leaves that key with
\* the value written
C37_ReplayKeepsLaterWrites ==
  [][(/\ sbEv'.op = "updateConsent"
      /\ sbEv.op = "setItem"
      /\ sbEv.under # <<>>)
       => store'[sbEv.call.storageType][sbEv.call.key] = sbEv.call.value]_vars

\* C38 (as claimed): the payload of a delivered banner:accept_all has
\* analytics, marketing and preferences true, and the payload of a
\* delivered banner:reject_all has them false, whatever other calls were
\* made while the report was pending
C38_BannerPayloadMatches ==
  cpEv.op = "settled" =>
    \A i \in 1..Len(cpEv.emitted) :
      LET payload == heap[cpEv.emitted[i].payload]
      IN /\ cpEv.emitted[i].event = "banner:accept_all" =>
              payload.analytics /\ payload.marketing /\ payload.preferences
         /\ cpEv.emitted[i].event = "banner:reject_all" =>
              ~payload.analytics /\ ~payload.marketing /\ ~payload.preferences

\* C39 (as claimed): a write of page code to an object it was handed, be it
\* a getConsent() result or the payload of a consent:change,
\* banner:accept_all or banner:reject_all notification, changes neither the
\* value getConsent() returns later nor the consent view the script engine
\* decides with
C39_PayloadWriteIsPrivate ==
  [][cpEv'.op = "mutate"
       => /\ heap'[cpConsentState'] = heap[cpConsentState]
          /\ cpBlocker => heap'[abConsent'] = heap[abConsent]]_vars

\* C40: with writable backends and outside of calls, load() returns absent
\* if no consent decision was made since a construction that found no record
\* or since the last resetConsent, and otherwise a record whose categories
\* equal getConsent(). Stated step by step: the constructor leaves the
\* stored record as it found it and takes its categories (the defaults when
\* there is none); setConsent, acceptAll and rejectAll leave a record with
\* the categories of the new state; resetConsent leaves no record; a settling
\* report and a repeated init change neither the record nor the state; and
\* in every state a stored record has the categories getConsent() returns.
C40_LoadMatchesDecisions ==
  [][LET now == getConsentFromStorage(cookie', store'["localStorage"][KeyConsent])
         same == /\ cookie' = cookie
                 /\ store'["localStorage"][KeyConsent] = store["localStorage"][KeyConsent]
     IN /\ (cpInstance' /\ now.found)
             => now.data.categories = heap'[cpConsentState']
        /\ cpEv'.op \in {"setConsent", "acceptAll", "rejectAll"} => now.found
        /\ cpEv'.op = "resetConsent"
             => /\ ~now.found
                /\ heap'[cpConsentState'] = DefaultConsent
        /\ (cpEv'.op = "init" /\ ~cpInstance)
             => /\ same
                /\ ~now.found => heap'[cpConsentState'] = DefaultConsent
        /\ (cpEv'.op = "settled" \/ (cpEv'.op = "init" /\ cpInstance))
             => /\ same
                /\ heap'[cpConsentState'] = heap[cpConsentState]]_vars

\* a record of an earlier visit was found at construction, a decision
\* replaced it, and its report has settled: what load() returns now is the
\* decision, with a flag the earlier record did not have
C40_Witness ==
  /\ cpEv.op = "settled"
  /\ pending = <<>>
  /\ Loaded.found
  /\ Loaded.data.categories = heap[cpConsentState]
  /\ Loaded.data.categories = [DefaultConsent EXCEPT !.preferences = TRUE,
                                                     !.analytics = TRUE]

============================================================================
